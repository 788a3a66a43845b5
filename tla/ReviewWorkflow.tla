--------------------------- MODULE ReviewWorkflow ---------------------------
(***************************************************************************)
(* The reviews of ONE pull request: the queue's jobs, the handler that     *)
(* runs each of them (makeReviewHandler and runReview of                   *)
(* services/orchestrator/src/workflow/reviewWorkflow.ts), the heartbeat    *)
(* timers they start, and the slot they compete for, reached through the   *)
(* fail-soft client of report/runs.ts.                                     *)
(*                                                                         *)
(* The slot is the single in-flight review the control plane keeps of a    *)
(* pull request: the pure rules of packages/review-session/src/run.ts and  *)
(* the store operations that apply them (control-plane/src/store.ts).      *)
(* Time is counted in heartbeat periods (HEARTBEAT_EVERY_MS).  The field   *)
(* quiet of a row is the age of its updatedAt in that unit, and the code's *)
(* "age > staleAfter" is quiet > StaleAfter.                               *)
(*                                                                         *)
(* A job is a webhook or a typed command.  The edge drops redeliveries,    *)
(* but its key holds the action beside the commit, so one head may have    *)
(* several webhook jobs (opened, reopened, ready for review).  Jobs run    *)
(* concurrently: the chart deploys two orchestrators and a queue feeds     *)
(* both.  Every call of runReview makes a run <<job, n>>.  Each HTTP call  *)
(* is one step, the computation between two calls is none.                 *)
(***************************************************************************)
EXTENDS Naturals, FiniteSets, TLC

CONSTANTS
  StaleAfter,   \* STALE_AFTER_MS in heartbeat periods: 6 in the code
  Webhooks,     \* the jobs of webhooks: pushes, and reopenings of a head
  MaxHead,      \* bound: how often the author pushes
  Commands,     \* the "@cavixcode review" and "summary" comments
  MaxAttempts,  \* attempts the queue gives a job: retries + 1
  MaxHeal,      \* MAX_HEAL_ATTEMPTS: other models tried inside one attempt
  MaxBeats,     \* MAX_HEARTBEATS
  MaxLost,      \* bound: control-plane calls that go unanswered
  MaxCrashes,   \* bound: orchestrator processes that die
  MaxRestarts   \* bound: control-plane restarts

Jobs == Webhooks \cup Commands
Runs == Jobs \X Nat

ASSUME StaleAfterAssumption == StaleAfter \in Nat \ {0}

ASSUME WorkflowAssumption ==
  /\ MaxHead \in Nat /\ MaxAttempts \in Nat \ {0} /\ MaxHeal \in Nat
  /\ MaxBeats \in Nat \ {0}
  /\ MaxLost \in Nat /\ MaxCrashes \in Nat /\ MaxRestarts \in Nat
  /\ Webhooks \cap Commands = {}

-----------------------------------------------------------------------------
(***************************************************************************)
(* The slot.  "absent" stands for a key the run table does not have.       *)
(***************************************************************************)
RunStatus == {"absent", "running", "posting", "completed", "failed"}

ActiveStatuses == {"running", "posting"}

NoId == <<>>

Absent == [runId |-> NoId, head |-> 0, status |-> "absent", quiet |-> 0]

IsActive(row) == row.status \in ActiveStatuses

Holds(row, r) == row.runId = r /\ IsActive(row)

(***************************************************************************)
(* decideClaim.  The stale rule comes before the mid-post rule, and both   *)
(* before the same-commit rule; a forced claim skips only the last.        *)
(***************************************************************************)
\* Mutant: the mid-post rule protects a dead poster, too.
StaleUnlessPosting(row) == row.quiet > StaleAfter /\ row.status # "posting"

Stale(row) == row.quiet > StaleAfter

Free(row) == ~IsActive(row) \/ Stale(row)

\* Mutants: nothing waits for a post; a person does not.
DecideClaimNoWait(row, commit, force) ==
  IF ~Free(row) /\ row.head = commit /\ ~force THEN "duplicate" ELSE "claimed"

DecideClaimForceAll(row, commit, force) ==
  IF force THEN "claimed"
  ELSE CASE Free(row)               -> "claimed"
         [] row.status = "posting"  -> "wait"
         [] row.head = commit       -> "duplicate"
         [] OTHER                   -> "claimed"

DecideClaim(row, commit, force) ==
  CASE Free(row)                                      -> "claimed"
    [] ~Free(row) /\ row.status = "posting"           -> "wait"
    [] ~Free(row) /\ row.status # "posting"
         /\ row.head = commit /\ ~force               -> "duplicate"
    [] OTHER                                          -> "claimed"

FreshRun(r, commit) == [runId |-> r, head |-> commit, status |-> "running", quiet |-> 0]

(***************************************************************************)
(* The store operations: the row after each call.                          *)
(***************************************************************************)
ClaimReviewRun(row, r, commit, force) ==
  IF DecideClaim(row, commit, force) = "claimed" THEN FreshRun(r, commit) ELSE row

TouchReviewRun(row, r) ==
  IF Holds(row, r) THEN [row EXCEPT !.quiet = 0] ELSE row

\* Mutant: the posting call does not ask whether the run was failed meanwhile.
BeginPostingAnyRow(row, r) ==
  IF row.runId = r THEN [row EXCEPT !.status = "posting", !.quiet = 0] ELSE row

BeginPostingRun(row, r) ==
  IF Holds(row, r) THEN [row EXCEPT !.status = "posting", !.quiet = 0] ELSE row

FinishReviewRun(row, r) ==
  IF row.runId = r THEN [row EXCEPT !.status = "completed", !.quiet = 0] ELSE row

\* Mutant: a failed post keeps its row.
FailRunningRunForHead(row, commit) ==
  IF row.head = commit /\ row.status = "running"
    THEN [row EXCEPT !.status = "failed", !.quiet = 0] ELSE row

FailReviewRunForHead(row, commit) ==
  IF row.head = commit /\ IsActive(row)
    THEN [row EXCEPT !.status = "failed", !.quiet = 0] ELSE row

(***************************************************************************)
(* stillMine, as the client reads the touch's answer: no record at all     *)
(* means that run tracking is off, never "you were cancelled".             *)
(***************************************************************************)
StillMine(row, r) == row.status = "absent" \/ Holds(row, r)

(***************************************************************************)
(* The jobs.                                                               *)
(***************************************************************************)
VARIABLES
  prHead,    \* the pull request's current head, 0 before it is opened
  slot,      \* the control plane's row for this pull request
  pc,        \* where each job is
  head,      \* the job's head_sha, or what a command's runReview resolved
  runs,      \* how many runs the job has made; the last is the current one
  failures,  \* failed attempts the queue has counted
  heals,     \* models tried in this attempt
  check,     \* the job's row in the Checks box
  beats,     \* the armed heartbeat timers, with the beats each has left
  posted,    \* history: the runs whose review is on the pull request
  lost,      \* unanswered calls so far
  crashes, restarts

vars == <<prHead, slot, pc, head, runs, failures, heals, check, beats, posted,
          lost, crashes, restarts>>
faults == <<lost, crashes, restarts>>
jobVars == <<head, runs, failures, heals>>

Working == {"reviewing", "cleared", "posting", "posted"}
InProgress == Working \cup {"starting", "failing"}
Ended == {"reviewed", "discarded", "duplicate", "wait", "early", "failed", "dropped"}

IsCommand(j) == j \in Commands
CurrentRun(j) == <<j, runs[j]>>
OnItsRun(j) == pc[j] \in Working

Goto(j, place) == pc' = [pc EXCEPT ![j] = place]

Init ==
  /\ prHead = 0 /\ slot = Absent
  /\ pc = [j \in Jobs |-> "idle"]
  /\ head = [j \in Jobs |-> 0]
  /\ runs = [j \in Jobs |-> 0]
  /\ failures = [j \in Jobs |-> 0]
  /\ heals = [j \in Jobs |-> 0]
  /\ check = [j \in Jobs |-> "none"]
  /\ beats = [r \in {} |-> 0]
  /\ posted = {}
  /\ lost = 0 /\ crashes = 0 /\ restarts = 0

(***************************************************************************)
(* A call of the run client.  applied is the row if the control plane      *)
(* serves the call, answer the client's next step when it hears back, and  *)
(* failSoft its next step when it does not: the request may still have     *)
(* been served, only its answer lost to the four-second timeout.           *)
(***************************************************************************)
Call(applied, answer, failSoft) ==
  \/ slot' = applied /\ answer /\ UNCHANGED lost
  \/ /\ lost < MaxLost /\ lost' = lost + 1
     /\ slot' \in {slot, applied}
     /\ failSoft

(***************************************************************************)
(* The environment: a push, another event of the head that is there, and a *)
(* typed command each put a job on the queue.                              *)
(***************************************************************************)
Push(j) ==
  /\ prHead < MaxHead /\ pc[j] = "idle"
  /\ prHead' = prHead + 1
  /\ head' = [head EXCEPT ![j] = prHead + 1]
  /\ Goto(j, "queued")
  /\ UNCHANGED <<slot, runs, failures, heals, check, beats, posted, faults>>

Reopen(j) ==
  /\ prHead > 0 /\ pc[j] = "idle"
  /\ head' = [head EXCEPT ![j] = prHead]
  /\ Goto(j, "queued")
  /\ UNCHANGED <<prHead, slot, runs, failures, heals, check, beats, posted, faults>>

Comment(c) ==
  /\ prHead > 0 /\ pc[c] = "idle"
  /\ Goto(c, "queued")
  /\ UNCHANGED <<prHead, slot, jobVars, check, beats, posted, faults>>

(***************************************************************************)
(* Step 0 of runReview.  A command carries no commit and reviews whatever  *)
(* the head is when it starts; asking the host for it can fail.            *)
(***************************************************************************)
ResolveHead(j) ==
  \/ /\ head' = IF IsCommand(j) THEN [head EXCEPT ![j] = prHead] ELSE head
     /\ Goto(j, "starting")
  \/ IsCommand(j) /\ Goto(j, "failing") /\ UNCHANGED head

Start(j) ==
  /\ pc[j] = "queued"
  /\ ResolveHead(j)
  /\ heals' = [heals EXCEPT ![j] = 0]
  /\ check' = [check EXCEPT ![j] = "none"]
  /\ UNCHANGED <<prHead, slot, runs, failures, beats, posted, faults>>

(***************************************************************************)
(* Step 0a and 0b: claim the slot; with it, arm the heartbeat and open the *)
(* row in the Checks box.  A claim nobody answered counts as claimed.      *)
(***************************************************************************)
Proceed(j, r) ==
  /\ Goto(j, "reviewing")
  /\ beats' = [x \in DOMAIN beats \cup {r} |-> IF x = r THEN MaxBeats ELSE beats[x]]
  /\ check' = [check EXCEPT ![j] = "open"]

Claim(j) ==
  LET r == <<j, runs[j] + 1>>
      decision == DecideClaim(slot, head[j], IsCommand(j))
      StandDown == Goto(j, decision) /\ UNCHANGED <<beats, check>>
  IN /\ pc[j] = "starting"
     /\ runs' = [runs EXCEPT ![j] = @ + 1]
     /\ Call(ClaimReviewRun(slot, r, head[j], IsCommand(j)),
             IF decision = "claimed" THEN Proceed(j, r) ELSE StandDown,
             Proceed(j, r))
     /\ UNCHANGED <<prHead, head, failures, heals, posted, crashes, restarts>>

(***************************************************************************)
(* The two early returns: nothing to review after the path filters, and    *)
(* the summary command.  Both close the check row, and neither releases    *)
(* the slot or clears the timer.                                           *)
(***************************************************************************)
\* Mutant: only the end of a whole review closes the row.
ReturnEarlyRowOpen(j) ==
  /\ pc[j] = "reviewing"
  /\ Goto(j, "early")
  /\ UNCHANGED <<prHead, slot, jobVars, check, beats, posted, faults>>

ReturnEarly(j) ==
  /\ pc[j] = "reviewing"
  /\ Goto(j, "early")
  /\ check' = [check EXCEPT ![j] = "closed"]
  /\ UNCHANGED <<prHead, slot, jobVars, beats, posted, faults>>

(***************************************************************************)
(* runReview throws: fetching the diff, reading the model, or posting.     *)
(***************************************************************************)
Throw(j) ==
  /\ pc[j] \in {"reviewing", "posting"}
  /\ Goto(j, "failing")
  /\ UNCHANGED <<prHead, slot, jobVars, check, beats, posted, faults>>

(***************************************************************************)
(* Self-heal: the model was unavailable, and the handler calls runReview   *)
(* again with another one, in the same attempt and with the same check     *)
(* row.  Nothing has released the first call's claim or its timer.         *)
(***************************************************************************)
\* Mutant: one model too many.
HealOnceMore(j) ==
  /\ pc[j] = "reviewing"
  /\ heals[j] <= MaxHeal
  /\ heals' = [heals EXCEPT ![j] = @ + 1]
  /\ ResolveHead(j)
  /\ UNCHANGED <<prHead, slot, runs, failures, check, beats, posted, faults>>

Heal(j) ==
  /\ pc[j] = "reviewing"
  /\ heals[j] < MaxHeal
  /\ heals' = [heals EXCEPT ![j] = @ + 1]
  /\ ResolveHead(j)
  /\ UNCHANGED <<prHead, slot, runs, failures, check, beats, posted, faults>>

(***************************************************************************)
(* Step 3z: the last chance to stop, then the state nothing may interrupt. *)
(* Two calls, and the second one's answer is not read.                     *)
(***************************************************************************)
CheckStillMine(j) ==
  LET r == CurrentRun(j)
  IN /\ pc[j] = "reviewing"
     /\ Call(TouchReviewRun(slot, r),
             Goto(j, IF StillMine(slot, r) THEN "cleared" ELSE "discarded"),
             Goto(j, "cleared"))
     /\ UNCHANGED <<prHead, jobVars, check, beats, posted, crashes, restarts>>

BeginPosting(j) ==
  /\ pc[j] = "cleared"
  /\ Call(BeginPostingRun(slot, CurrentRun(j)), Goto(j, "posting"), Goto(j, "posting"))
  /\ UNCHANGED <<prHead, jobVars, check, beats, posted, crashes, restarts>>

(***************************************************************************)
(* Steps 4 to 5b: the description, the review, the check's conclusion.     *)
(***************************************************************************)
Post(j) ==
  /\ pc[j] = "posting"
  /\ Goto(j, "posted")
  /\ posted' = posted \cup {CurrentRun(j)}
  /\ check' = [check EXCEPT ![j] = "closed"]
  /\ UNCHANGED <<prHead, slot, jobVars, beats, faults>>

(***************************************************************************)
(* The end of runReview: clear the timer, release the slot.                *)
(***************************************************************************)
Disarm(rs) == beats' = [x \in DOMAIN beats \ rs |-> beats[x]]

Finish(j) ==
  LET r == CurrentRun(j)
  IN /\ pc[j] = "posted"
     /\ Disarm({r})
     /\ Call(FinishReviewRun(slot, r), Goto(j, "reviewed"), Goto(j, "reviewed"))
     /\ UNCHANGED <<prHead, jobVars, check, posted, crashes, restarts>>

(***************************************************************************)
(* The handler's catch.  The slot is released by COMMIT, from the          *)
(* handler's own ref: the webhook's head, and nothing for a command, whose *)
(* head runReview resolved into a ref of its own.  A permanent failure     *)
(* ends the job; a transient one goes back to the queue until its attempts *)
(* are used up.                                                            *)
(***************************************************************************)

Requeue(j) ==
  /\ failures' = [failures EXCEPT ![j] = @ + 1]
  /\ Goto(j, IF failures[j] + 1 < MaxAttempts THEN "queued" ELSE "failed")

GiveUp(j) == Goto(j, "failed") /\ UNCHANGED failures

HandleFailure(j) ==
  LET Settle == Requeue(j) \/ GiveUp(j)
  IN /\ pc[j] = "failing"
     /\ IF IsCommand(j) THEN UNCHANGED <<slot, lost>> /\ Settle
        ELSE Call(FailReviewRunForHead(slot, head[j]), Settle, Settle)
     /\ check' = [check EXCEPT ![j] = IF @ = "open" THEN "closed" ELSE @]
     /\ UNCHANGED <<prHead, head, runs, heals, beats, posted, crashes, restarts>>

(***************************************************************************)
(* A heartbeat period passes.  Every armed timer sends its touch; those in *)
(* unheard get no answer (and are taken not to reach the control plane).   *)
(* A timer told that its run lost the slot clears itself, and one that has *)
(* sent MaxBeats stops.  A working review ends before its timer does: at   *)
(* the code's two hours that is what MAX_HEARTBEATS relies on.             *)
(***************************************************************************)
LastBeat(j) == CurrentRun(j) \in DOMAIN beats /\ beats[CurrentRun(j)] = 1

\* Mutant: a heartbeat that gets no answer stops its timer.
KeepsIfAnswered(r, heard) == beats[r] > 1 /\ r \in heard /\ StillMine(slot, r)

Keeps(r, heard) == beats[r] > 1 /\ (r \in heard => StillMine(slot, r))

Tick ==
  \E unheard \in SUBSET DOMAIN beats :
    LET heard == DOMAIN beats \ unheard
        kept  == {r \in DOMAIN beats : Keeps(r, heard)}
    IN /\ \A j \in Jobs : ~(OnItsRun(j) /\ LastBeat(j))
       /\ lost + Cardinality(unheard) <= MaxLost
       /\ lost' = lost + Cardinality(unheard)
       /\ beats' = [r \in kept |-> beats[r] - 1]
       /\ slot' = IF \E r \in heard : Holds(slot, r) THEN [slot EXCEPT !.quiet = 0]
                  ELSE IF IsActive(slot) /\ slot.quiet <= StaleAfter THEN [slot EXCEPT !.quiet = @ + 1]
                  ELSE slot
       /\ UNCHANGED <<prHead, pc, jobVars, check, posted, crashes, restarts>>

(***************************************************************************)
(* The process of job j dies, and its timers with it.  A queue with stall  *)
(* detection hands a job in progress to another process; without one the   *)
(* job is gone.                                                            *)
(***************************************************************************)
Crash(j) ==
  /\ crashes < MaxCrashes /\ crashes' = crashes + 1
  /\ pc[j] \notin {"idle", "queued"}
  /\ Disarm({r \in DOMAIN beats : r[1] = j})
  /\ IF pc[j] \in InProgress THEN Goto(j, "queued") \/ Goto(j, "dropped") ELSE UNCHANGED pc
  /\ UNCHANGED <<prHead, slot, jobVars, check, posted, lost, restarts>>

(***************************************************************************)
(* The run table is not in the control plane's snapshot.                   *)
(***************************************************************************)
RestartControlPlane ==
  /\ restarts < MaxRestarts /\ restarts' = restarts + 1
  /\ slot' = Absent
  /\ UNCHANGED <<prHead, pc, jobVars, check, beats, posted, lost, crashes>>

JobStep(j) ==
  \/ Start(j) \/ Claim(j) \/ ReturnEarly(j) \/ Throw(j) \/ Heal(j)
  \/ CheckStillMine(j) \/ BeginPosting(j) \/ Post(j) \/ Finish(j) \/ HandleFailure(j)

Next ==
  \/ \E j \in Webhooks : Push(j) \/ Reopen(j)
  \/ \E c \in Commands : Comment(c)
  \/ \E j \in Jobs : JobStep(j)
  \/ Tick
  \/ \E j \in Jobs : Crash(j)
  \/ RestartControlPlane

(***************************************************************************)
(* The queue hands out its jobs and the handler runs to its end; timers    *)
(* fire.  Nobody owes the system a push, a comment or a fault.             *)
(***************************************************************************)
Fairness == /\ \A j \in Jobs : WF_vars(JobStep(j))
            /\ WF_vars(Tick)

Spec == Init /\ [][Next]_vars

FairSpec == Spec /\ Fairness

-----------------------------------------------------------------------------
PCs == {"idle", "queued"} \cup InProgress \cup Ended
HeadOrNone == 0..MaxHead
Ages == 0..StaleAfter + 1

Rows == [runId : Runs \cup {NoId}, head : HeadOrNone, status : RunStatus, quiet : Ages]

(* Every variable has its type; a timer has at least one beat left. *)
TypeOK ==
  /\ prHead \in HeadOrNone
  /\ slot \in Rows
  /\ pc \in [Jobs -> PCs]
  /\ head \in [Jobs -> HeadOrNone]
  /\ runs \in [Jobs -> Nat]
  /\ failures \in [Jobs -> 0..MaxAttempts]
  /\ heals \in [Jobs -> 0..MaxHeal]
  /\ check \in [Jobs -> {"none", "open", "closed"}]
  /\ DOMAIN beats \subseteq Runs
  /\ beats \in [DOMAIN beats -> 1..MaxBeats]
  /\ posted \subseteq Runs
  /\ lost \in 0..MaxLost /\ crashes \in 0..MaxCrashes /\ restarts \in 0..MaxRestarts

(***************************************************************************)
(* A run enters the slot in the step that creates it and at no other time: *)
(* whatever was superseded, failed, taken over or forgotten, no late       *)
(* heartbeat, posting or finish call of the old run brings it back.        *)
(* (touchReviewRun: "a run that has already lost the slot must not be able *)
(* to take it back by reporting in".)                                      *)
(***************************************************************************)
NoResurrection ==
  [][\A j \in Jobs : \A n \in 1..runs[j] :
       Holds(slot', <<j, n>>) => Holds(slot, <<j, n>>)]_vars

(***************************************************************************)
(* The stale window ends only runs that are gone.  While a holder works,   *)
(* its row is never older than the calls lost so far, so a review keeps    *)
(* its slot however long it takes unless more calls are lost than the      *)
(* window has heartbeats.                                                  *)
(***************************************************************************)
LiveHolderIsHeard ==
  \A j \in Jobs : OnItsRun(j) /\ Holds(slot, CurrentRun(j)) => slot.quiet <= lost

(***************************************************************************)
(* Rule 3 of run.ts, "a run that has started posting is never              *)
(* interrupted", as far as the code keeps it: no claim, forced or not,     *)
(* takes the row of a review that is registered as posting and still       *)
(* writing, with no more lost calls than the stale window forgives and a   *)
(* control plane that remembers its rows.                                  *)
(***************************************************************************)
Registered(j) ==
  pc[j] \in {"posting", "posted"} /\ Holds(slot, CurrentRun(j)) /\ slot.status = "posting"

PostingNotTaken ==
  [][\A j \in Jobs :
       Registered(j) /\ lost <= StaleAfter /\ restarts' = restarts
         => slot'.runId = slot.runId]_vars

(***************************************************************************)
(* Coalescing, superseding and standing down never leave a pull request    *)
(* without a review between them: once every job has ended, some review    *)
(* was posted, unless a job failed or found nothing to review.             *)
(***************************************************************************)
Quiescent == \A j \in Jobs : pc[j] \in Ended \cup {"idle"}

NoReviewLost ==
  Quiescent /\ prHead > 0 =>
    posted # {} \/ \E j \in Jobs : pc[j] \in {"failed", "early"}

(***************************************************************************)
(* No fault wedges the pull request: whatever crashed, threw, returned     *)
(* early or went unanswered, the slot is again and again there for the     *)
(* taking.                                                                 *)
(***************************************************************************)
SlotComesFree == []<>Free(slot)

(***************************************************************************)
(* "Close the check run rather than leaving a spinner on the PR forever",  *)
(* as far as the code keeps it: the row a job's last attempt opened is     *)
(* closed when the job ends by a review, by an early return or by a        *)
(* failure, whichever of its runs and retries opened it.  (A job that is   *)
(* superseded or told to stand down leaves it open.)                       *)
(***************************************************************************)
RowIsClosed ==
  \A j \in Jobs : pc[j] \in {"reviewed", "early", "failed"} => check[j] # "open"

-----------------------------------------------------------------------------
(***************************************************************************)
(* The slot is a lease: its row, read as the holder of ReviewLease.        *)
(***************************************************************************)
Holder == IF IsActive(slot) THEN slot.runId ELSE NoId
Sealed == slot.status = "posting"
Lapsed == IsActive(slot) /\ Stale(slot)
Issued == UNION {{<<j, n>> : n \in 1..runs[j]} : j \in Jobs}

Lease == INSTANCE ReviewLease WITH
  NoOne <- NoId, holder <- Holder, sealed <- Sealed, lapsed <- Lapsed, issued <- Issued

(***************************************************************************)
(* Whatever the jobs, the timers, lost calls, crashes and restarts do,     *)
(* every step is a step of the lease or none: a review that writes is not  *)
(* interrupted unless it was silent for the whole window, and one that was *)
(* superseded, refused, failed or forgotten stays out (the rules of        *)
(* run.ts, touchReviewRun, beginPostingRun).                               *)
(***************************************************************************)
SlotIsALease == Lease!Spec

-----------------------------------------------------------------------------
(***************************************************************************)
(* What the comments say and the code does not do.                         *)
(***************************************************************************)

(***************************************************************************)
(* run.ts: "a duplicate should be dropped forever, while a wait should be  *)
(* retried once the current post finishes".  With that, the newest head    *)
(* would be reviewed whenever nothing fails.                               *)
(***************************************************************************)
NewestHeadReviewed ==
  Quiescent /\ prHead > 0 /\ (\A j \in Jobs : pc[j] \notin {"failed", "early", "dropped"}) =>
    \E j \in Jobs : pc[j] = "reviewed" /\ head[j] = prHead

(* Webhook jobs differ in nothing but their name. *)
WebhookSymmetry == Permutations(Webhooks)
=============================================================================
