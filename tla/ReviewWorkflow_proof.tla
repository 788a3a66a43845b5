------------------------ MODULE ReviewWorkflow_proof ------------------------
(***************************************************************************)
(* Theorems about ReviewWorkflow, for every number of pushes, commands,    *)
(* attempts, heals and faults, and every stale window: type correctness    *)
(* first, then the slot, its holder, the Checks row and the reviews of a   *)
(* pull request, and last that the whole implements ReviewLease.           *)
(***************************************************************************)
EXTENDS ReviewWorkflow, FiniteSetTheorems, TLAPS

(***************************************************************************)
(* decideClaim has three answers, and only "claimed" changes the row.      *)
(***************************************************************************)
LEMMA DecideClaimAnswers ==
  ASSUME NEW row, NEW h, NEW force
  PROVE  DecideClaim(row, h, force) \in {"claimed", "wait", "duplicate"}
  BY DEF DecideClaim

(* A new row's head and age lie in their ranges. *)
LEMMA Ranges == 0 \in Ages /\ 0 \in HeadOrNone
  BY StaleAfterAssumption, WorkflowAssumption DEF Ages, HeadOrNone

(***************************************************************************)
(* Every store operation takes a row of the run table to another one.      *)
(***************************************************************************)
LEMMA RowOperations ==
  ASSUME NEW row \in Rows, NEW r \in Runs, NEW h \in HeadOrNone, NEW force
  PROVE  /\ ClaimReviewRun(row, r, h, force) \in Rows
         /\ TouchReviewRun(row, r) \in Rows
         /\ BeginPostingRun(row, r) \in Rows
         /\ FinishReviewRun(row, r) \in Rows
         /\ FailReviewRunForHead(row, h) \in Rows
  <1> USE Ranges DEF Rows, RunStatus
  <1>1. ClaimReviewRun(row, r, h, force) \in Rows
    BY DEF ClaimReviewRun, FreshRun
  <1>2. TouchReviewRun(row, r) \in Rows
    BY DEF TouchReviewRun
  <1>3. BeginPostingRun(row, r) \in Rows
    BY DEF BeginPostingRun
  <1>4. FinishReviewRun(row, r) \in Rows
    BY DEF FinishReviewRun
  <1>5. FailReviewRunForHead(row, h) \in Rows
    BY DEF FailReviewRunForHead
  <1> QED
    BY <1>1, <1>2, <1>3, <1>4, <1>5

(***************************************************************************)
(* Type correctness is inductive together with two facts: a job still in   *)
(* the queue's hands has an attempt left, and finitely many timers are     *)
(* armed.                                                                  *)
(***************************************************************************)
AttemptLeft == \A j \in Jobs : pc[j] \notin Ended => failures[j] < MaxAttempts

TypeInv == TypeOK /\ AttemptLeft /\ IsFiniteSet(DOMAIN beats)

(* The first state satisfies the inductive type invariant. *)
LEMMA InitTypeInv == Init => TypeInv
  <1> SUFFICES ASSUME Init PROVE TypeInv
    OBVIOUS
  <1> USE StaleAfterAssumption, WorkflowAssumption, Ranges
  <1>1. slot \in Rows
    BY DEF Init, Rows, Absent, RunStatus
  <1>2. pc \in [Jobs -> PCs] /\ check \in [Jobs -> {"none", "open", "closed"}]
    BY DEF Init, PCs
  <1>3. TypeOK
    BY <1>1, <1>2 DEF Init, TypeOK
  <1>4. AttemptLeft
    BY DEF Init, AttemptLeft
  <1>5. IsFiniteSet(DOMAIN beats)
    BY FS_EmptySet DEF Init
  <1> QED
    BY <1>3, <1>4, <1>5 DEF TypeInv

(***************************************************************************)
(* A call of the run client, served or not, keeps the row and the count of *)
(* lost calls well typed, and one of its two outcomes happens.             *)
(***************************************************************************)
LEMMA CallTypes ==
  ASSUME slot \in Rows, lost \in 0..MaxLost, NEW applied \in Rows,
         NEW ACTION answer, NEW ACTION failSoft, Call(applied, answer, failSoft)
  PROVE  slot' \in Rows /\ lost' \in 0..MaxLost /\ (answer \/ failSoft)
  BY WorkflowAssumption DEF Call

Timers == DOMAIN beats \subseteq Runs /\ beats \in [DOMAIN beats -> 1..MaxBeats] /\ IsFiniteSet(DOMAIN beats)

(* Arming a timer keeps the table of timers well typed. *)
LEMMA Arming ==
  ASSUME Timers, NEW r \in Runs,
         beats' = [x \in DOMAIN beats \cup {r} |-> IF x = r THEN MaxBeats ELSE beats[x]]
  PROVE  Timers'
  <1>1. IsFiniteSet(DOMAIN beats \cup {r})
    BY FS_AddElement DEF Timers
  <1> QED
    BY <1>1, WorkflowAssumption DEF Timers

(* Clearing timers keeps the table of timers well typed. *)
LEMMA Disarming ==
  ASSUME Timers, NEW rs, Disarm(rs)
  PROVE  Timers'
  <1>1. IsFiniteSet(DOMAIN beats \ rs)
    BY FS_Subset, DOMAIN beats \ rs \subseteq DOMAIN beats DEF Timers
  <1> QED
    BY <1>1 DEF Timers, Disarm

(***************************************************************************)
(* A job that has not ended may go anywhere.                               *)
(***************************************************************************)
Moved == pc' \in [Jobs -> PCs] /\ AttemptLeft'

(* Every place a step sends a job to is a place. *)
LEMMA Places ==
  {"queued", "starting", "reviewing", "cleared", "posting", "posted", "failing", "reviewed",
   "discarded", "duplicate", "wait", "early", "failed", "dropped"} \subseteq PCs
  BY DEF PCs, InProgress, Working, Ended

(* A step that moves one job that has not ended keeps the facts about jobs. *)
LEMMA Moves ==
  ASSUME TypeInv, NEW j \in Jobs, NEW place \in PCs, Goto(j, place),
         UNCHANGED failures, pc[j] \notin Ended
  PROVE  Moved
  BY DEF TypeInv, TypeOK, AttemptLeft, Goto, Moved

(* A step that moves no job keeps the facts about jobs. *)
LEMMA Stays ==
  ASSUME TypeInv, UNCHANGED <<pc, failures>>
  PROVE  Moved
  BY DEF TypeInv, TypeOK, AttemptLeft, Moved

(* What the proofs below need to know of the types. *)
LEMMA TypeFacts ==
  ASSUME TypeInv
  PROVE  /\ Timers /\ slot \in Rows /\ lost \in 0..MaxLost
         /\ \A j \in Jobs :
              /\ <<j, runs[j]>> \in Runs /\ <<j, runs[j] + 1>> \in Runs
              /\ head[j] \in HeadOrNone
  BY Ranges DEF TypeInv, TypeOK, Timers, Runs

(* Every step of a job preserves the inductive type invariant. *)
LEMMA JobStepTypeInv ==
  ASSUME TypeInv, NEW j \in Jobs, JobStep(j)
  PROVE  TypeOK' /\ Moved /\ Timers'
  <1> USE WorkflowAssumption, Ranges, Places, TypeFacts
  <1>1. ASSUME NEW place \in PCs, Goto(j, place), UNCHANGED failures,
               pc[j] \in InProgress \cup {"queued"}
        PROVE  Moved
    BY <1>1, Moves DEF InProgress, Working, Ended
  <1>2. CASE Start(j)
    <2>1. Moved
      BY <1>1, <1>2 DEF Start, ResolveHead
    <2>2. head' \in [Jobs -> HeadOrNone]
      BY <1>2 DEF Start, ResolveHead, TypeInv, TypeOK
    <2>3. heals' \in [Jobs -> 0..MaxHeal] /\ check' \in [Jobs -> {"none", "open", "closed"}]
      BY <1>2 DEF Start, TypeInv, TypeOK
    <2> QED
      BY <1>2, <2>1, <2>2, <2>3 DEF Start, Moved, TypeInv, TypeOK, Timers, faults
  <1>3. CASE Claim(j)
    <2> DEFINE r == <<j, runs[j] + 1>>
    <2>1. r \in Runs /\ ClaimReviewRun(slot, r, head[j], IsCommand(j)) \in Rows
      BY RowOperations
    <2>2. /\ slot' \in Rows /\ lost' \in 0..MaxLost
          /\ \/ Proceed(j, r)
             \/ /\ Goto(j, DecideClaim(slot, head[j], IsCommand(j)))
                /\ DecideClaim(slot, head[j], IsCommand(j)) # "claimed"
                /\ UNCHANGED <<beats, check>>
      BY <1>3, <2>1 DEF Claim, Call
    <2>3. Moved
      BY <1>1, <1>3, <2>2, DecideClaimAnswers DEF Claim, Proceed, InProgress
    <2>4. Timers' /\ check' \in [Jobs -> {"none", "open", "closed"}]
      BY <2>1, <2>2, Arming DEF Proceed, TypeInv, TypeOK, Timers
    <2>5. runs' \in [Jobs -> Nat]
      BY <1>3 DEF Claim, TypeInv, TypeOK
    <2> HIDE DEF r
    <2> QED
      BY <1>3, <2>2, <2>3, <2>4, <2>5 DEF Claim, Moved, TypeInv, TypeOK, Timers
  <1>4. CASE ReturnEarly(j)
    <2>1. Moved
      BY <1>1, <1>4 DEF ReturnEarly, jobVars, InProgress, Working
    <2> QED
      BY <1>4, <2>1 DEF ReturnEarly, Moved, TypeInv, TypeOK, Timers, jobVars, faults
  <1>5. CASE Throw(j)
    <2>1. Moved
      BY <1>1, <1>5 DEF Throw, jobVars, InProgress, Working
    <2> QED
      BY <1>5, <2>1 DEF Throw, Moved, TypeInv, TypeOK, Timers, jobVars, faults
  <1>6. CASE Heal(j)
    <2>1. Moved
      BY <1>1, <1>6 DEF Heal, ResolveHead, InProgress, Working
    <2>2. head' \in [Jobs -> HeadOrNone]
      BY <1>6 DEF Heal, ResolveHead, TypeInv, TypeOK
    <2>3. heals' \in [Jobs -> 0..MaxHeal]
      BY <1>6 DEF Heal, TypeInv, TypeOK
    <2> QED
      BY <1>6, <2>1, <2>2, <2>3 DEF Heal, Moved, TypeInv, TypeOK, Timers, faults
  <1>7. CASE CheckStillMine(j)
    <2>1. CurrentRun(j) \in Runs /\ TouchReviewRun(slot, CurrentRun(j)) \in Rows
      BY RowOperations DEF CurrentRun
    <2>2. /\ slot' \in Rows /\ lost' \in 0..MaxLost
          /\ Goto(j, "cleared") \/ Goto(j, "discarded")
      BY <1>7, <2>1, CallTypes DEF CheckStillMine
    <2>3. Moved
      BY <1>1, <1>7, <2>2 DEF CheckStillMine, jobVars, InProgress, Working
    <2> QED
      BY <1>7, <2>2, <2>3 DEF CheckStillMine, Moved, TypeInv, TypeOK, Timers, jobVars
  <1>8. CASE BeginPosting(j)
    <2>1. BeginPostingRun(slot, CurrentRun(j)) \in Rows
      BY RowOperations DEF CurrentRun
    <2>2. slot' \in Rows /\ lost' \in 0..MaxLost /\ Goto(j, "posting")
      BY <1>8, <2>1, CallTypes DEF BeginPosting
    <2>3. Moved
      BY <1>1, <1>8, <2>2 DEF BeginPosting, jobVars, InProgress, Working
    <2> QED
      BY <1>8, <2>2, <2>3 DEF BeginPosting, Moved, TypeInv, TypeOK, Timers, jobVars
  <1>9. CASE Post(j)
    <2>1. Moved
      BY <1>1, <1>9 DEF Post, jobVars, InProgress, Working
    <2> QED
      BY <1>9, <2>1 DEF Post, Moved, TypeInv, TypeOK, Timers, jobVars, faults, CurrentRun
  <1>10. CASE Finish(j)
    <2>1. FinishReviewRun(slot, CurrentRun(j)) \in Rows
      BY RowOperations DEF CurrentRun
    <2>2. slot' \in Rows /\ lost' \in 0..MaxLost /\ Goto(j, "reviewed")
      BY <1>10, <2>1, CallTypes DEF Finish
    <2>3. Moved
      BY <1>1, <1>10, <2>2 DEF Finish, jobVars, InProgress, Working
    <2>4. Timers'
      BY <1>10, Disarming DEF Finish
    <2> QED
      BY <1>10, <2>2, <2>3, <2>4 DEF Finish, Moved, TypeInv, TypeOK, Timers, jobVars
  <1>11. CASE HandleFailure(j)
    <2> DEFINE Settle == Requeue(j) \/ GiveUp(j)
    <2>1. slot' \in Rows /\ lost' \in 0..MaxLost /\ Settle
      <3>1. CASE IsCommand(j)
        BY <1>11, <3>1 DEF HandleFailure
      <3>2. CASE ~IsCommand(j)
        <4>1. FailReviewRunForHead(slot, head[j]) \in Rows
          BY RowOperations, <<j, runs[j]>> \in Runs
        <4> QED
          BY <1>11, <3>2, <4>1, CallTypes DEF HandleFailure
      <3> QED
        BY <3>1, <3>2
    <2>2. Moved /\ failures' \in [Jobs -> 0..MaxAttempts]
      <3>1. CASE GiveUp(j)
        BY <1>1, <1>11, <3>1 DEF GiveUp, HandleFailure, InProgress, TypeInv, TypeOK
      <3>2. CASE Requeue(j)
        <4>1. failures[j] < MaxAttempts /\ failures[j] \in Nat
          BY <1>11 DEF HandleFailure, TypeInv, TypeOK, AttemptLeft, Ended
        <4>2. failures' \in [Jobs -> 0..MaxAttempts]
          BY <3>2, <4>1 DEF Requeue, TypeInv, TypeOK
        <4>3. pc' \in [Jobs -> PCs]
          BY <3>2 DEF Requeue, Goto, TypeInv, TypeOK
        <4>4. AttemptLeft'
          BY <3>2, <4>1 DEF Requeue, Goto, TypeInv, TypeOK, AttemptLeft, Ended
        <4> QED
          BY <4>2, <4>3, <4>4 DEF Moved
      <3> QED
        BY <2>1, <3>1, <3>2
    <2>3. check' \in [Jobs -> {"none", "open", "closed"}]
      BY <1>11 DEF HandleFailure, TypeInv, TypeOK
    <2> QED
      BY <1>11, <2>1, <2>2, <2>3 DEF HandleFailure, Moved, TypeInv, TypeOK, Timers
  <1> QED
    BY <1>2, <1>3, <1>4, <1>5, <1>6, <1>7, <1>8, <1>9, <1>10, <1>11 DEF JobStep

(***************************************************************************)
(* A heartbeat period keeps the row, the lost calls and the timers well    *)
(* typed.                                                                  *)
(***************************************************************************)
LEMMA TickTypeInv ==
  ASSUME TypeInv, Tick
  PROVE  slot' \in Rows /\ lost' \in 0..MaxLost /\ Timers'
  <1> USE WorkflowAssumption, Ranges, TypeFacts
  <1> PICK unheard \in SUBSET DOMAIN beats :
        LET heard == DOMAIN beats \ unheard
            kept  == {r \in DOMAIN beats : beats[r] > 1 /\ (r \in heard => StillMine(slot, r))}
        IN /\ lost + Cardinality(unheard) <= MaxLost
           /\ lost' = lost + Cardinality(unheard)
           /\ beats' = [r \in kept |-> beats[r] - 1]
           /\ slot' = IF \E r \in heard : Holds(slot, r) THEN [slot EXCEPT !.quiet = 0]
                      ELSE IF IsActive(slot) /\ slot.quiet <= StaleAfter THEN [slot EXCEPT !.quiet = @ + 1]
                      ELSE slot
    BY DEF Tick, Keeps
  <1> DEFINE heard == DOMAIN beats \ unheard
             kept  == {r \in DOMAIN beats : beats[r] > 1 /\ (r \in heard => StillMine(slot, r))}
  <1>1. lost' \in 0..MaxLost
    BY FS_Subset, FS_CardinalityType DEF Timers
  <1>2. slot' \in Rows
    <2>1. [slot EXCEPT !.quiet = 0] \in Rows
      BY DEF Rows
    <2>2. slot.quiet <= StaleAfter => [slot EXCEPT !.quiet = @ + 1] \in Rows
      <3>1. slot.quiet <= StaleAfter => slot.quiet + 1 \in Ages
        BY StaleAfterAssumption DEF Rows, Ages
      <3> QED
        BY <3>1 DEF Rows
    <2> QED
      BY <2>1, <2>2
  <1>3. Timers'
    <2>1. IsFiniteSet(kept)
      BY FS_Subset, kept \subseteq DOMAIN beats DEF Timers
    <2>2. beats' = [r \in kept |-> beats[r] - 1]
      OBVIOUS
    <2>3. \A r \in kept : r \in Runs /\ beats[r] - 1 \in 1..MaxBeats
      BY DEF Timers
    <2> HIDE DEF kept
    <2> QED
      BY <2>1, <2>2, <2>3 DEF Timers
  <1> QED
    BY <1>1, <1>2, <1>3

(* Every step of the system preserves the inductive type invariant. *)
LEMMA NextTypeInv == TypeInv /\ [Next]_vars => TypeInv'
  <1> SUFFICES ASSUME TypeInv, [Next]_vars PROVE TypeInv'
    OBVIOUS
  <1> USE WorkflowAssumption, Ranges, Places
  <1>a. Timers /\ slot \in Rows /\ lost \in 0..MaxLost
    BY DEF TypeInv, TypeOK, Timers
  <1>b. SUFFICES TypeOK' /\ Moved /\ Timers'
    BY DEF TypeInv, Timers, Moved
  <1>1. CASE \E j \in Webhooks : Push(j) \/ Reopen(j)
    <2> PICK j \in Webhooks : Push(j) \/ Reopen(j)
      BY <1>1
    <2>1. Moved
      BY Moves DEF Push, Reopen, Ended, Jobs
    <2>2. prHead' \in HeadOrNone /\ head' \in [Jobs -> HeadOrNone]
      BY DEF Push, Reopen, TypeInv, TypeOK, HeadOrNone
    <2> QED
      BY <1>a, <2>1, <2>2 DEF Push, Reopen, Moved, TypeInv, TypeOK, Timers, faults
  <1>2. CASE \E c \in Commands : Comment(c)
    <2> PICK c \in Commands : Comment(c)
      BY <1>2
    <2>1. Moved
      BY Moves DEF Comment, Ended, Jobs, jobVars
    <2> QED
      BY <1>a, <2>1 DEF Comment, Moved, TypeInv, TypeOK, Timers, jobVars, faults
  <1>3. CASE \E j \in Jobs : JobStep(j)
    BY <1>3, JobStepTypeInv
  <1>4. CASE Tick
    <2>1. Moved
      BY <1>4, Stays DEF Tick, jobVars
    <2> QED
      BY <1>4, <2>1, TickTypeInv DEF Tick, Keeps, Moved, TypeInv, TypeOK, Timers, jobVars
  <1>5. CASE \E j \in Jobs : Crash(j)
    <2> PICK j \in Jobs : Crash(j)
      BY <1>5
    <2>1. Moved
      <3>1. CASE pc[j] \in InProgress
        BY <3>1, Moves DEF Crash, InProgress, Working, Ended, jobVars
      <3>2. CASE pc[j] \notin InProgress
        BY <3>2, Stays DEF Crash, jobVars
      <3> QED
        BY <3>1, <3>2
    <2>2. Timers'
      BY <1>a, Disarming DEF Crash
    <2> QED
      BY <2>1, <2>2 DEF Crash, Moved, TypeInv, TypeOK, Timers, jobVars
  <1>6. CASE RestartControlPlane
    <2>1. Moved
      BY <1>6, Stays DEF RestartControlPlane, jobVars
    <2>2. Absent \in Rows
      BY DEF Absent, Rows, RunStatus
    <2> QED
      BY <1>6, <1>a, <2>1, <2>2 DEF RestartControlPlane, Moved, TypeInv, TypeOK, Timers, jobVars
  <1>7. CASE UNCHANGED vars
    <2>1. Moved
      BY <1>7, Stays DEF vars
    <2> QED
      BY <1>7, <1>a, <2>1 DEF vars, Moved, TypeInv, TypeOK, Timers
  <1> QED
    BY <1>1, <1>2, <1>3, <1>4, <1>5, <1>6, <1>7 DEF Next

(***************************************************************************)
(* Every state the reviews of a pull request reach is well typed: in       *)
(* particular no job is retried past its attempts, and no age, heartbeat   *)
(* count or lost call escapes its bound.                                   *)
(***************************************************************************)
THEOREM TypeCorrect == Spec => []TypeOK
  <1>1. TypeInv => TypeOK
    BY DEF TypeInv
  <1> QED
    BY <1>1, InitTypeInv, NextTypeInv, PTL DEF Spec

(* The inductive type invariant, for the modules that build on it. *)
THEOREM TypeInvariant == Spec => []TypeInv
  BY InitTypeInv, NextTypeInv, PTL DEF Spec

-----------------------------------------------------------------------------
(***************************************************************************)
(* What a step does to the row: a granted claim replaces it, a restart     *)
(* forgets it, and every other step leaves it with its run and at most     *)
(* ends it.                                                                *)
(***************************************************************************)
Granted(j) ==
  /\ Claim(j)
  /\ DecideClaim(slot, head[j], IsCommand(j)) = "claimed"
  /\ slot' = FreshRun(<<j, runs[j] + 1>>, head[j])

Kept == slot'.runId = slot.runId /\ (IsActive(slot') => IsActive(slot))

(***************************************************************************)
(* Every store operation but a claim leaves the row with its run, and      *)
(* makes no ended row active.                                              *)
(***************************************************************************)
LEMMA KeptByOperations ==
  ASSUME NEW row \in Rows, NEW r, NEW h,
         slot = row,
         \/ slot' = slot
         \/ slot' = TouchReviewRun(slot, r)
         \/ slot' = BeginPostingRun(slot, r)
         \/ slot' = FinishReviewRun(slot, r)
         \/ slot' = FailReviewRunForHead(slot, h)
  PROVE  Kept
  BY DEF Kept, Rows, TouchReviewRun, BeginPostingRun, FinishReviewRun, FailReviewRunForHead,
         Holds, IsActive, ActiveStatuses

(***************************************************************************)
(* A step of a job keeps the row's run, unless it is the claim that makes  *)
(* a run.                                                                  *)
(***************************************************************************)
LEMMA JobSlotSteps ==
  ASSUME TypeInv, NEW j \in Jobs, JobStep(j)
  PROVE  Granted(j) \/ Kept
  <1> USE TypeFacts
  <1>a. slot' = slot => Kept
    BY DEF Kept
  <1>1. CASE Claim(j)
    <2>1. slot' = slot \/ slot' = ClaimReviewRun(slot, <<j, runs[j] + 1>>, head[j], IsCommand(j))
      BY <1>1 DEF Claim, Call
    <2> QED
      BY <1>1, <2>1, <1>a DEF ClaimReviewRun, Granted
  <1>2. CASE CheckStillMine(j)
    BY <1>2, KeptByOperations DEF CheckStillMine, Call
  <1>3. CASE BeginPosting(j)
    BY <1>3, KeptByOperations DEF BeginPosting, Call
  <1>4. CASE Finish(j)
    BY <1>4, KeptByOperations DEF Finish, Call
  <1>5. CASE HandleFailure(j)
    <2>1. slot' = slot \/ slot' = FailReviewRunForHead(slot, head[j])
      BY <1>5 DEF HandleFailure, Call
    <2> QED
      BY <2>1, KeptByOperations
  <1>6. CASE Start(j) \/ ReturnEarly(j) \/ Throw(j) \/ Heal(j) \/ Post(j)
    BY <1>6, <1>a DEF Start, ReturnEarly, Throw, Heal, Post
  <1> QED
    BY <1>1, <1>2, <1>3, <1>4, <1>5, <1>6 DEF JobStep

(***************************************************************************)
(* Every step of the system keeps the row's run or gives it to a run made  *)
(* in that step, or the row is forgotten.                                  *)
(***************************************************************************)
LEMMA SlotSteps ==
  ASSUME TypeInv, [Next]_vars
  PROVE  (\E j \in Jobs : Granted(j)) \/ RestartControlPlane \/ Kept
  <1> USE TypeFacts
  <1>a. slot' = slot => Kept
    BY DEF Kept
  <1>1. CASE \E j \in Jobs : JobStep(j)
    BY <1>1, JobSlotSteps
  <1>2. CASE Tick
    <2>1. \/ slot' = slot \/ slot' = [slot EXCEPT !.quiet = 0] \/ slot' = [slot EXCEPT !.quiet = @ + 1]
      BY <1>2 DEF Tick
    <2> QED
      BY <2>1 DEF Kept, Rows, IsActive
  <1>3. CASE \/ \E j \in Webhooks : Push(j) \/ Reopen(j)
             \/ (\E c \in Commands : Comment(c)) \/ (\E j \in Jobs : Crash(j)) \/ UNCHANGED vars
    BY <1>3, <1>a DEF Push, Reopen, Comment, Crash, vars
  <1> QED
    BY <1>1, <1>2, <1>3 DEF Next

(***************************************************************************)
(* A run that lost the slot never holds it again, whatever late call it    *)
(* still makes and whatever faults there are (touchReviewRun,              *)
(* finishReviewRun in store.ts).                                           *)
(***************************************************************************)
THEOREM LostSlotsStayLost == Spec => NoResurrection
  <1> DEFINE Step == \A j \in Jobs : \A n \in 1..runs[j] :
                       Holds(slot', <<j, n>>) => Holds(slot, <<j, n>>)
  <1>1. TypeInv /\ [Next]_vars => Step
    <2> SUFFICES ASSUME TypeInv, [Next]_vars,
                        NEW j \in Jobs, NEW n \in 1..runs[j], Holds(slot', <<j, n>>)
                 PROVE  Holds(slot, <<j, n>>)
      OBVIOUS
    <2>1. CASE \E k \in Jobs : Granted(k)
      <3> PICK k \in Jobs : Granted(k)
        BY <2>1
      <3>1. <<j, n>> = <<k, runs[k] + 1>>
        BY DEF Granted, FreshRun, Holds
      <3> QED
        BY <3>1 DEF TypeInv, TypeOK
    <2>2. CASE RestartControlPlane
      BY <2>2 DEF RestartControlPlane, Absent, Holds, IsActive, ActiveStatuses
    <2>3. CASE Kept
      BY <2>3 DEF Kept, Holds
    <2> QED
      BY <2>1, <2>2, <2>3, SlotSteps
  <1>2. TypeInv /\ [Next]_vars => [Step]_vars
    BY <1>1
  <1> QED
    BY <1>2, TypeInvariant, PTL DEF Spec, NoResurrection

(***************************************************************************)
(* Run ids are not handed out twice: the holder is one of the runs made.   *)
(***************************************************************************)
HolderWasMade == \A j \in Jobs, n \in Nat : Holds(slot, <<j, n>>) => n <= runs[j]

(* The number of runs of a job never decreases. *)
LEMMA RunsGrow ==
  ASSUME TypeInv, [Next]_vars, NEW j \in Jobs
  PROVE  runs'[j] \in Nat /\ runs'[j] >= runs[j]
  <1> USE DEF TypeInv, TypeOK
  <1>1. CASE \E k \in Jobs : JobStep(k)
    BY <1>1 DEF JobStep, Start, Claim, ReturnEarly, Throw, Heal, CheckStillMine, BeginPosting,
                Post, Finish, HandleFailure, jobVars
  <1>2. CASE \/ \E k \in Webhooks : Push(k) \/ Reopen(k)
             \/ (\E c \in Commands : Comment(c)) \/ Tick \/ (\E k \in Jobs : Crash(k))
             \/ RestartControlPlane \/ UNCHANGED vars
    <2>1. runs' = runs
      BY <1>2 DEF Push, Reopen, Comment, Tick, Crash, RestartControlPlane, vars, jobVars
    <2> QED
      BY <2>1
  <1> QED
    BY <1>1, <1>2 DEF Next

(* No run holds the slot before it is made. *)
LEMMA HolderWasMadeStep ==
  ASSUME TypeInv, HolderWasMade, [Next]_vars
  PROVE  HolderWasMade'
  <1> SUFFICES ASSUME NEW j \in Jobs, NEW n \in Nat, Holds(slot', <<j, n>>)
               PROVE  n <= runs'[j]
    BY DEF HolderWasMade, Holds, IsActive
  <1>1. CASE \E k \in Jobs : Granted(k)
    <2> PICK k \in Jobs : Granted(k)
      BY <1>1
    <2>1. <<j, n>> = <<k, runs[k] + 1>>
      BY DEF Granted, FreshRun, Holds
    <2> QED
      BY <2>1 DEF Granted, Claim, TypeInv, TypeOK
  <1>2. CASE RestartControlPlane
    BY <1>2 DEF RestartControlPlane, Absent, Holds, IsActive, ActiveStatuses
  <1>3. CASE Kept
    BY <1>3, RunsGrow DEF Kept, Holds, HolderWasMade, TypeInv, TypeOK
  <1> QED
    BY <1>1, <1>2, <1>3, SlotSteps

(***************************************************************************)
(* The inductive invariant behind the stale window: a run that works and   *)
(* holds the slot has its timer armed, and its row is no older than the    *)
(* calls lost so far.  Without the timer the age could grow with nothing   *)
(* lost.                                                                   *)
(***************************************************************************)
HolderBeats ==
  \A j \in Jobs : OnItsRun(j) /\ Holds(slot, CurrentRun(j)) =>
    slot.quiet <= lost /\ CurrentRun(j) \in DOMAIN beats

HolderInv == TypeInv /\ HolderWasMade /\ HolderBeats

(***************************************************************************)
(* A step that leaves the row, the runs and the losses alone and lets no   *)
(* new job onto its run preserves HolderBeats if the timers of the jobs on *)
(* their runs stay armed.                                                  *)
(***************************************************************************)
LEMMA HolderKept ==
  ASSUME HolderInv, TypeInv', runs' = runs, lost' >= lost,
         \/ slot'.quiet = slot.quiet \/ slot'.quiet = 0, Kept,
         \A j \in Jobs : pc'[j] \in Working =>
           pc[j] \in Working /\ (CurrentRun(j) \in DOMAIN beats => CurrentRun(j) \in DOMAIN beats')
  PROVE  HolderBeats'
  <1> SUFFICES ASSUME NEW j \in Jobs, OnItsRun(j)', Holds(slot, CurrentRun(j))'
               PROVE  slot'.quiet <= lost' /\ CurrentRun(j)' \in DOMAIN beats'
    BY DEF HolderBeats
  <1>1. OnItsRun(j) /\ Holds(slot, CurrentRun(j))
    BY DEF OnItsRun, Holds, CurrentRun, Kept
  <1>2. slot.quiet <= lost /\ CurrentRun(j) \in DOMAIN beats
    BY <1>1 DEF HolderInv, HolderBeats
  <1>3. slot.quiet \in Nat /\ lost \in Nat /\ lost' \in Nat
    BY WorkflowAssumption, StaleAfterAssumption DEF HolderInv, TypeInv, TypeOK, Rows, Ages
  <1> QED
    BY <1>2, <1>3 DEF OnItsRun, CurrentRun

(***************************************************************************)
(* No operation makes a row older: each leaves its age or resets it.       *)
(***************************************************************************)
LEMMA Operations ==
  ASSUME NEW row \in Rows, NEW r, NEW h
  PROVE  /\ TouchReviewRun(row, r).quiet \in {row.quiet, 0}
         /\ BeginPostingRun(row, r).quiet \in {row.quiet, 0}
         /\ FinishReviewRun(row, r).quiet \in {row.quiet, 0}
         /\ FailReviewRunForHead(row, h).quiet \in {row.quiet, 0}
  BY DEF Rows, TouchReviewRun, BeginPostingRun, FinishReviewRun, FailReviewRunForHead

(***************************************************************************)
(* A claim keeps the holders heard: the run it makes has a new row and a   *)
(* new timer.                                                              *)
(***************************************************************************)
LEMMA ClaimHolder ==
  ASSUME HolderInv, NEW k \in Jobs, Claim(k)
  PROVE  HolderBeats'
  <1> DEFINE r == <<k, runs[k] + 1>>
  <1> SUFFICES ASSUME NEW j \in Jobs, OnItsRun(j)', Holds(slot, CurrentRun(j))'
               PROVE  slot'.quiet <= lost' /\ CurrentRun(j)' \in DOMAIN beats'
    BY DEF HolderBeats
  <1> USE WorkflowAssumption, StaleAfterAssumption DEF HolderInv, TypeInv, TypeOK
  <1>1. /\ slot' = slot \/ slot' = FreshRun(r, head[k])
        /\ lost' = lost \/ lost' = lost + 1
        /\ runs' = [runs EXCEPT ![k] = @ + 1]
    BY DEF Claim, Call, ClaimReviewRun
  <1>2. \/ Proceed(k, r)
        \/ Goto(k, DecideClaim(slot, head[k], IsCommand(k))) /\ UNCHANGED beats
    BY DEF Claim, Call
  <1>3. slot.quiet \in Nat /\ lost \in Nat
    BY DEF Rows, Ages
  <1>4. CASE j = k
    <2>1. Proceed(k, r)
      BY <1>2, <1>4, DecideClaimAnswers DEF Goto, OnItsRun, Working
    <2>2. CurrentRun(j)' = r /\ r \in DOMAIN beats'
      BY <2>1, <1>1, <1>4 DEF Proceed, CurrentRun
    <2>3. slot' # slot
      <3>1. ~Holds(slot, r)
        BY DEF HolderWasMade
      <3> QED
        BY <1>4, <2>2, <3>1 DEF Holds, IsActive
    <2> QED
      BY <1>1, <1>3, <2>2, <2>3 DEF FreshRun
  <1>5. CASE j # k
    <2>1. CurrentRun(j)' = CurrentRun(j) /\ CurrentRun(j) # r /\ OnItsRun(j)
      BY <1>1, <1>2, <1>5 DEF CurrentRun, Proceed, Goto, OnItsRun
    <2>2. slot' = slot
      BY <1>1, <2>1 DEF FreshRun, Holds
    <2> QED
      BY <1>1, <1>2, <1>3, <2>1, <2>2 DEF HolderBeats, Proceed
  <1> QED
    BY <1>4, <1>5

(***************************************************************************)
(* A heartbeat period keeps the holders heard: it ages a working holder's  *)
(* row only if its call was lost.                                          *)
(***************************************************************************)
LEMMA TickHolder ==
  ASSUME HolderInv, TypeInv', Tick
  PROVE  HolderBeats'
  <1> USE WorkflowAssumption, StaleAfterAssumption
  <1> SUFFICES ASSUME NEW j \in Jobs, OnItsRun(j)', Holds(slot, CurrentRun(j))'
               PROVE  slot'.quiet <= lost' /\ CurrentRun(j)' \in DOMAIN beats'
    BY DEF HolderBeats
  <1> DEFINE r == CurrentRun(j)
  <1>1. CurrentRun(j)' = r /\ OnItsRun(j) /\ lost' \in Nat /\ lost \in Nat /\ slot.quiet \in Nat
    BY DEF Tick, Keeps, CurrentRun, OnItsRun, jobVars, HolderInv, TypeInv, TypeOK, Rows, Ages
  <1>2. Kept /\ Holds(slot, r)
    BY <1>1, SlotSteps, TypeFacts DEF HolderInv, Tick, Keeps, Holds, Kept, IsActive, Rows
  <1>3. slot.quiet <= lost /\ r \in DOMAIN beats /\ beats[r] > 1
    BY <1>1, <1>2, TypeFacts DEF HolderInv, HolderBeats, Tick, Keeps, LastBeat, Timers
  <1> PICK unheard \in SUBSET DOMAIN beats :
        LET heard == DOMAIN beats \ unheard
            kept  == {x \in DOMAIN beats : beats[x] > 1 /\ (x \in heard => StillMine(slot, x))}
        IN /\ lost' = lost + Cardinality(unheard)
           /\ beats' = [x \in kept |-> beats[x] - 1]
           /\ slot' = IF \E x \in heard : Holds(slot, x) THEN [slot EXCEPT !.quiet = 0]
                      ELSE IF IsActive(slot) /\ slot.quiet <= StaleAfter THEN [slot EXCEPT !.quiet = @ + 1]
                      ELSE slot
    BY DEF Tick, Keeps
  <1>4. r \in DOMAIN beats'
    BY <1>2, <1>3 DEF StillMine
  <1>5. slot'.quiet <= lost'
    <2>1. CASE r \in unheard
      <3>1. Cardinality(unheard) \in Nat /\ Cardinality(unheard) # 0
        <4>1. IsFiniteSet(unheard)
          BY FS_Subset, TypeFacts DEF HolderInv, Timers
        <4> QED
          BY <2>1, <4>1, FS_EmptySet, FS_CardinalityType
      <3>2. slot'.quiet <= slot.quiet + 1
        BY <1>1, TypeFacts DEF HolderInv, Rows
      <3> QED
        BY <1>1, <1>3, <3>1, <3>2, TypeInv' DEF TypeInv, TypeOK, Rows, Ages
    <2>2. CASE r \notin unheard
      <3>1. slot'.quiet = 0
        BY <1>2, <1>3, <2>2, TypeFacts DEF HolderInv, Rows
      <3> QED
        BY <1>1, <3>1
    <2> QED
      BY <2>1, <2>2
  <1> QED
    BY <1>1, <1>4, <1>5

(* Every other step of a job keeps the holders heard. *)
LEMMA JobStepHolder ==
  ASSUME HolderInv, TypeInv', NEW k \in Jobs, JobStep(k), ~Claim(k)
  PROVE  HolderBeats'
  <1> USE TypeFacts, Operations DEF HolderInv
  <1>1. slot \in Rows /\ lost \in Nat
    BY WorkflowAssumption
  <1>2. Kept
    BY JobSlotSteps DEF Granted
  <1>3. /\ runs' = runs /\ lost' >= lost
        /\ slot'.quiet = slot.quiet \/ slot'.quiet = 0
    BY <1>1 DEF JobStep, Start, ReturnEarly, Throw, Heal, CheckStillMine, BeginPosting, Post,
                Finish, HandleFailure, Call, jobVars, faults
  <1>4. ASSUME NEW j \in Jobs, pc'[j] \in Working
        PROVE  pc[j] \in Working /\ (CurrentRun(j) \in DOMAIN beats => CurrentRun(j) \in DOMAIN beats')
    <2>1. pc[k] \in Working \/ pc'[k] \notin Working
      BY DEF JobStep, Start, ResolveHead, ReturnEarly, Throw, Heal, CheckStillMine, BeginPosting,
             Post, Finish, HandleFailure, Requeue, GiveUp, Call, Goto, Working, TypeInv, TypeOK
    <2>2. j # k => pc'[j] = pc[j]
      BY DEF JobStep, Start, ResolveHead, ReturnEarly, Throw, Heal, CheckStillMine, BeginPosting,
             Post, Finish, HandleFailure, Requeue, GiveUp, Call, Goto, TypeInv, TypeOK
    <2>3. CASE Finish(k)
      <3>1. j # k
        BY <1>4, <2>3 DEF Finish, Call, Goto, Working, TypeInv, TypeOK
      <3> QED
        BY <1>4, <2>2, <2>3, <3>1 DEF Finish, Disarm, CurrentRun
    <2>4. CASE ~Finish(k)
      <3>1. beats' = beats
        BY <2>4 DEF JobStep, Start, ReturnEarly, Throw, Heal, CheckStillMine, BeginPosting, Post,
                    HandleFailure
      <3> QED
        BY <1>4, <2>1, <2>2, <3>1
    <2> QED
      BY <2>3, <2>4
  <1> QED
    BY <1>2, <1>3, <1>4, HolderKept

(* The first state satisfies the invariant about holders. *)
LEMMA InitHolderInv == Init => HolderInv
  BY InitTypeInv DEF Init, HolderInv, HolderWasMade, HolderBeats, Absent, Holds, IsActive, ActiveStatuses

(* Every step of the system preserves the invariant about holders. *)
LEMMA NextHolderInv == HolderInv /\ [Next]_vars => HolderInv'
  <1> SUFFICES ASSUME HolderInv, [Next]_vars PROVE HolderInv'
    OBVIOUS
  <1>a. TypeInv' /\ HolderWasMade'
    BY NextTypeInv, HolderWasMadeStep DEF HolderInv
  <1>b. lost \in Nat
    BY WorkflowAssumption, TypeFacts DEF HolderInv
  <1>c. SUFFICES HolderBeats'
    BY <1>a DEF HolderInv
  <1>1. CASE \E k \in Jobs : JobStep(k)
    BY <1>1, <1>a, ClaimHolder, JobStepHolder
  <1>2. CASE Tick
    BY <1>2, <1>a, TickHolder
  <1>3. CASE RestartControlPlane
    BY <1>3 DEF RestartControlPlane, HolderBeats, Absent, Holds, IsActive, ActiveStatuses
  <1>4. CASE \/ \E k \in Webhooks : Push(k) \/ Reopen(k)
             \/ (\E c \in Commands : Comment(c)) \/ UNCHANGED vars
    <2>1. runs' = runs /\ slot' = slot /\ lost' = lost /\ beats' = beats
      BY <1>4 DEF Push, Reopen, Comment, vars, jobVars, faults
    <2>2. \A j \in Jobs : pc'[j] \in Working => pc[j] \in Working
      BY <1>4 DEF Push, Reopen, Comment, vars, Goto, Working, HolderInv, TypeInv, TypeOK
    <2> QED
      BY <1>a, <1>b, <2>1, <2>2, HolderKept DEF Kept
  <1>5. CASE \E k \in Jobs : Crash(k)
    <2> PICK k \in Jobs : Crash(k)
      BY <1>5
    <2>1. runs' = runs /\ slot' = slot /\ lost' = lost
      BY DEF Crash, jobVars
    <2>2. \A j \in Jobs : pc'[j] \in Working => pc[j] \in Working /\ j # k
      BY DEF Crash, Goto, Working, InProgress, HolderInv, TypeInv, TypeOK
    <2>3. \A j \in Jobs : j # k /\ CurrentRun(j) \in DOMAIN beats => CurrentRun(j) \in DOMAIN beats'
      BY DEF Crash, Disarm, CurrentRun
    <2> QED
      BY <1>a, <1>b, <2>1, <2>2, <2>3, HolderKept DEF Kept
  <1> QED
    BY <1>1, <1>2, <1>3, <1>4, <1>5 DEF Next

(* The invariant about holders holds in every behaviour. *)
LEMMA HolderInvariant == Spec => []HolderInv
  BY InitHolderInv, NextHolderInv, PTL DEF Spec

(***************************************************************************)
(* While a run works and holds the slot, its row is never older than the   *)
(* calls lost so far (the heartbeat of reviewWorkflow.ts, the stale rule   *)
(* of run.ts).                                                             *)
(***************************************************************************)
THEOREM LiveHoldersAreHeard == Spec => []LiveHolderIsHeard
  <1>1. HolderInv => LiveHolderIsHeard
    BY DEF HolderInv, HolderBeats, LiveHolderIsHeard
  <1> QED
    BY <1>1, HolderInvariant, PTL

(***************************************************************************)
(* No claim takes the row of a review that is registered as posting and    *)
(* still writing, unless more calls were lost than the stale window        *)
(* forgives or the control plane forgot the row (rule 3 of run.ts).        *)
(***************************************************************************)
THEOREM PostingIsNotTaken == Spec => PostingNotTaken
  <1> DEFINE Step == \A j \in Jobs :
                       Registered(j) /\ lost <= StaleAfter /\ restarts' = restarts
                         => slot'.runId = slot.runId
  <1>1. HolderInv /\ [Next]_vars => Step
    <2> SUFFICES ASSUME HolderInv, [Next]_vars, NEW j \in Jobs, Registered(j),
                        lost <= StaleAfter, restarts' = restarts
                 PROVE  slot'.runId = slot.runId
      OBVIOUS
    <2>1. ~Free(slot) /\ slot.status = "posting"
      <3>1. slot.quiet <= lost /\ IsActive(slot)
        BY DEF Registered, HolderInv, HolderBeats, OnItsRun, Working, Holds
      <3>2. slot.quiet \in Nat /\ lost \in Nat
        BY WorkflowAssumption, StaleAfterAssumption, TypeFacts DEF HolderInv, Rows, Ages
      <3> QED
        BY <3>1, <3>2, StaleAfterAssumption DEF Free, Stale, Registered
    <2>2. \A k \in Jobs : ~Granted(k)
      BY <2>1 DEF Granted, DecideClaim
    <2>3. ~RestartControlPlane
      BY DEF RestartControlPlane, HolderInv, TypeInv, TypeOK
    <2> QED
      BY <2>2, <2>3, SlotSteps DEF Kept, HolderInv
  <1>2. HolderInv /\ [Next]_vars => [Step]_vars
    BY <1>1
  <1> QED
    BY <1>2, HolderInvariant, PTL DEF Spec, PostingNotTaken

-----------------------------------------------------------------------------
(***************************************************************************)
(* The row in the Checks box is not open where a run has concluded it.     *)
(***************************************************************************)
Concluded == {"posted", "reviewed", "early", "failed"}

RowInv ==
  /\ pc \in [Jobs -> PCs] /\ check \in [Jobs -> {"none", "open", "closed"}]
  /\ \A j \in Jobs : pc[j] \in Concluded => check[j] # "open"

(* A step that moves job j to a place that is not concluded, or closes its row. *)
LEMMA RowFollows ==
  ASSUME RowInv, NEW j \in Jobs, NEW place \in PCs, NEW row \in {"none", "open", "closed"}, Goto(j, place),
         check' = [check EXCEPT ![j] = row], place \in Concluded => row # "open"
  PROVE  RowInv'
  BY DEF RowInv, Goto

(* The steps of a job keep the row closed. *)
LEMMA JobStepRow == ASSUME RowInv, NEW j \in Jobs, JobStep(j) PROVE RowInv'
  <1>1. check = [check EXCEPT ![j] = check[j]] /\ check[j] \in {"none", "open", "closed"}
        /\ (pc[j] \in Concluded => check[j] # "open")
    BY DEF RowInv
  <1>2. CASE Start(j)
    <2>1. \E place \in {"starting", "failing"} : Goto(j, place)
      BY <1>2 DEF Start, ResolveHead
    <2>2. check' = [check EXCEPT ![j] = "none"]
      BY <1>2 DEF Start
    <2> QED
      BY <2>1, <2>2, RowFollows, Places DEF Concluded
  <1>3. CASE Claim(j)
    <2>1. \/ Goto(j, "reviewing") /\ check' = [check EXCEPT ![j] = "open"]
          \/ \E place \in {"wait", "duplicate"} : Goto(j, place) /\ check' = check
      <3>1. DecideClaim(slot, head[j], IsCommand(j)) \in {"claimed", "wait", "duplicate"}
        BY DecideClaimAnswers
      <3> QED
        BY <1>3, <3>1 DEF Claim, Call, Proceed
    <2> QED
      BY <1>1, <2>1, RowFollows, Places DEF Concluded
  <1>4. CASE ReturnEarly(j)
    BY <1>4, RowFollows, Places DEF ReturnEarly
  <1>5. CASE Throw(j) \/ Heal(j) \/ CheckStillMine(j) \/ BeginPosting(j)
    <2>1. \E place \in {"failing", "starting", "cleared", "discarded", "posting"} : Goto(j, place)
      BY <1>5 DEF Throw, Heal, ResolveHead, CheckStillMine, BeginPosting, Call
    <2>2. check' = check
      BY <1>5 DEF Throw, Heal, CheckStillMine, BeginPosting
    <2> QED
      BY <1>1, <2>1, <2>2, RowFollows, Places DEF Concluded
  <1>6. CASE Post(j)
    BY <1>6, RowFollows, Places DEF Post
  <1>7. CASE Finish(j)
    <2>1. Goto(j, "reviewed") /\ check' = check /\ pc[j] \in Concluded
      BY <1>7 DEF Finish, Call, Concluded
    <2> QED
      BY <1>1, <2>1, RowFollows, Places
  <1>8. CASE HandleFailure(j)
    <2> DEFINE row == IF check[j] = "open" THEN "closed" ELSE check[j]
    <2>1. \E place \in {"queued", "failed"} : Goto(j, place)
      BY <1>8 DEF HandleFailure, Call, Requeue, GiveUp
    <2>2. check' = [check EXCEPT ![j] = row] /\ row # "open" /\ row \in {"none", "open", "closed"}
      BY <1>1, <1>8 DEF HandleFailure
    <2> QED
      BY <2>1, <2>2, RowFollows, Places
  <1> QED
    BY <1>2, <1>3, <1>4, <1>5, <1>6, <1>7, <1>8 DEF JobStep

(***************************************************************************)
(* "Close the check run rather than leaving a spinner on the PR forever":  *)
(* a job that ended by a review, an early return or a failure has no open  *)
(* row, whatever was retried, healed, lost or crashed on the way.          *)
(***************************************************************************)
THEOREM RowsAreClosed == Spec => []RowIsClosed
  <1>1. Init => RowInv
    BY DEF Init, RowInv, PCs, Concluded
  <1>2. RowInv /\ [Next]_vars => RowInv'
    <2> SUFFICES ASSUME RowInv, [Next]_vars PROVE RowInv'
      OBVIOUS
    <2>1. CASE UNCHANGED <<pc, check>>
      BY <2>1 DEF RowInv
    <2>2. ASSUME NEW j \in Jobs, Goto(j, "queued") \/ Goto(j, "dropped"), check' = check PROVE RowInv'
      <3>1. check' = [check EXCEPT ![j] = check[j]] /\ check[j] \in {"none", "open", "closed"}
        BY <2>2 DEF RowInv
      <3> QED
        BY <2>2, <3>1, RowFollows, Places DEF Concluded
    <2>3. CASE UNCHANGED vars \/ Tick \/ RestartControlPlane
      BY <2>1, <2>3 DEF vars, Tick, RestartControlPlane
    <2>4. ASSUME NEW j \in Webhooks, Push(j) \/ Reopen(j) PROVE RowInv'
      BY <2>2, <2>4 DEF Push, Reopen, Jobs
    <2>5. ASSUME NEW c \in Commands, Comment(c) PROVE RowInv'
      BY <2>2, <2>5 DEF Comment, Jobs
    <2>6. ASSUME NEW j \in Jobs, Crash(j) PROVE RowInv'
      <3>1. check' = check /\ (Goto(j, "queued") \/ Goto(j, "dropped") \/ UNCHANGED pc)
        BY <2>6 DEF Crash
      <3> QED
        BY <2>1, <2>2, <3>1
    <2> QED
      BY <2>3, <2>4, <2>5, <2>6, JobStepRow DEF Next
  <1>3. RowInv => RowIsClosed
    BY DEF RowInv, RowIsClosed, Concluded
  <1> QED
    BY <1>1, <1>2, <1>3, PTL DEF Spec

-----------------------------------------------------------------------------
(***************************************************************************)
(* Standing down is safe between webhooks: when nothing is lost, crashes   *)
(* or is healed and nobody types a command, superseding, coalescing and    *)
(* deferring never leave a pull request without a review.                  *)
(***************************************************************************)
Faultless ==
  /\ MaxLost = 0 /\ MaxCrashes = 0 /\ MaxRestarts = 0
  /\ MaxHeal = 0 /\ Commands = {}

(***************************************************************************)
(* The slot is held by a job, for that job's commit, which is at work, or  *)
(* about to release it, or returned early and left it behind.              *)
(***************************************************************************)
HoldsFor(j) ==
  /\ slot.runId = CurrentRun(j) /\ slot.head = head[j]
  /\ pc[j] \in Working \cup {"failing", "early"}

HolderWorks == IsActive(slot) => \E j \in Jobs : HoldsFor(j)

(***************************************************************************)
(* Something will still come of the pull request: a review is posted, a    *)
(* job failed or returned early, a job has not claimed yet or will give    *)
(* the slot back, or a job at work holds the slot.                         *)
(***************************************************************************)
Hope ==
  \/ posted # {}
  \/ \E j \in Jobs : pc[j] \in {"failed", "early", "queued", "starting", "failing"}
  \/ \E j \in Jobs : OnItsRun(j) /\ Holds(slot, CurrentRun(j))

ReviewInv ==
  /\ TypeInv
  /\ \A j \in Jobs : pc[j] = "posted" => posted # {}
  /\ HolderWorks
  /\ prHead > 0 => Hope

(* The first state satisfies the invariant about reviews. *)
LEMMA InitReviewInv == Init => ReviewInv
  BY InitTypeInv DEF Init, ReviewInv, HolderWorks, Absent, IsActive, ActiveStatuses

(***************************************************************************)
(* With no lost calls a call of the run client is served and answered.     *)
(***************************************************************************)
LEMMA Served ==
  ASSUME Faultless, TypeInv, NEW applied, NEW ACTION answer, NEW ACTION failSoft,
         Call(applied, answer, failSoft)
  PROVE  slot' = applied /\ answer
  BY DEF Faultless, TypeInv, TypeOK, Call

(***************************************************************************)
(* A step that leaves the jobs and the row's run, head and status alone.   *)
(***************************************************************************)
LEMMA Unmoved ==
  ASSUME ReviewInv, TypeInv', UNCHANGED <<pc, runs, head, posted, prHead>>,
         slot'.runId = slot.runId, slot'.head = slot.head, slot'.status = slot.status
  PROVE  ReviewInv'
  <1>1. HolderWorks'
    BY DEF ReviewInv, HolderWorks, HoldsFor, CurrentRun, IsActive
  <1>2. prHead' > 0 => Hope'
    BY DEF ReviewInv, Hope, OnItsRun, Holds, CurrentRun, IsActive
  <1> QED
    BY <1>1, <1>2 DEF ReviewInv

(***************************************************************************)
(* A claim preserves the invariant about reviews: it takes the slot, or    *)
(* stands down for a run that is at work.                                  *)
(***************************************************************************)
LEMMA ClaimReviewInv ==
  ASSUME Faultless, ReviewInv, TypeInv', NEW j \in Jobs, Claim(j)
  PROVE  ReviewInv'
  <1> DEFINE r == <<j, runs[j] + 1>>
             answer == DecideClaim(slot, head[j], IsCommand(j))
  <1>t. /\ pc \in [Jobs -> PCs] /\ head \in [Jobs -> HeadOrNone] /\ slot \in Rows
        /\ runs \in [Jobs -> Nat]
    BY DEF ReviewInv, TypeInv, TypeOK
  <1>1. /\ pc[j] = "starting"
        /\ runs' = [runs EXCEPT ![j] = @ + 1] /\ UNCHANGED <<prHead, head, posted>>
        /\ slot' = ClaimReviewRun(slot, r, head[j], IsCommand(j))
        /\ pc' = [pc EXCEPT ![j] = IF answer = "claimed" THEN "reviewing" ELSE answer]
    BY Served DEF Claim, Proceed, Goto, ReviewInv
  <1>2. CASE answer = "claimed"
    <2>1. slot'.runId = r /\ slot'.head = head[j] /\ IsActive(slot')
      BY <1>1, <1>2 DEF ClaimReviewRun, FreshRun, IsActive, ActiveStatuses
    <2>2. CurrentRun(j)' = r /\ pc'[j] = "reviewing"
      BY <1>1, <1>2, <1>t DEF CurrentRun
    <2>3. HolderWorks'
      BY <1>1, <2>1, <2>2 DEF HolderWorks, HoldsFor, Working
    <2>4. Hope'
      BY <2>1, <2>2 DEF Hope, OnItsRun, Holds, Working, IsActive
    <2> QED
      BY <1>1, <1>2, <1>t, <2>3, <2>4 DEF ReviewInv
  <1>3. CASE answer # "claimed"
    <2>1. slot' = slot /\ IsActive(slot)
      BY <1>1, <1>3 DEF ClaimReviewRun, DecideClaim, Free
    <2>2. PICK k \in Jobs : HoldsFor(k)
      BY <2>1 DEF ReviewInv, HolderWorks
    <2>3. k # j /\ pc'[k] = pc[k] /\ runs'[k] = runs[k]
      BY <1>1, <1>t, <2>2 DEF HoldsFor, Working
    <2>4. HolderWorks'
      BY <1>1, <2>1, <2>2, <2>3 DEF HolderWorks, HoldsFor, CurrentRun
    <2>5. Hope'
      BY <2>1, <2>2, <2>3 DEF HoldsFor, Hope, OnItsRun, Holds, CurrentRun, IsActive
    <2>6. pc'[j] \in {"wait", "duplicate"}
      BY <1>1, <1>3, <1>t, DecideClaimAnswers
    <2> QED
      BY <1>1, <1>t, <2>4, <2>5, <2>6 DEF ReviewInv
  <1> QED
    BY <1>2, <1>3

(* Every step of a job preserves the invariant about reviews. *)
LEMMA JobStepReviewInv ==
  ASSUME Faultless, ReviewInv, TypeInv', NEW j \in Jobs, JobStep(j)
  PROVE  ReviewInv'
  <1>t. /\ pc \in [Jobs -> PCs] /\ head \in [Jobs -> HeadOrNone] /\ slot \in Rows
        /\ runs \in [Jobs -> Nat] /\ heals \in [Jobs -> 0..MaxHeal] /\ ~IsCommand(j)
    BY DEF ReviewInv, TypeInv, TypeOK, IsCommand, Faultless
  \* A job that moves on within its run, or ends, with the row kept for its holder.
  <1>a. ASSUME NEW place, pc' = [pc EXCEPT ![j] = place], UNCHANGED <<prHead, runs, head>>,
               place # "starting", place = "posted" => posted' # {},
               posted \subseteq posted',
               slot'.runId = slot.runId, slot'.head = slot.head,
               IsActive(slot') => IsActive(slot),
               HoldsFor(j) /\ IsActive(slot') => place \in Working \cup {"failing", "early"},
               \/ place \in {"failed", "early", "queued", "failing"}
               \/ posted' # {}
               \/ /\ IsActive(slot) => IsActive(slot')
                  /\ pc[j] \in Working
                  /\ Holds(slot, CurrentRun(j)) => place \in Working
        PROVE  ReviewInv'
    <2>1. HolderWorks'
      <3> SUFFICES ASSUME IsActive(slot') PROVE \E k \in Jobs : HoldsFor(k)'
        BY DEF HolderWorks, IsActive
      <3>1. PICK k \in Jobs : HoldsFor(k)
        BY <1>a DEF ReviewInv, HolderWorks
      <3>2. HoldsFor(k)'
        BY <1>a, <1>t, <3>1 DEF HoldsFor, CurrentRun
      <3> QED
        BY <3>2
    <2>2. prHead' > 0 => Hope'
      <3>1. CASE place \in {"failed", "early", "queued", "failing"} \/ posted' # {}
        BY <1>a, <1>t, <3>1 DEF Hope
      <3>2. CASE posted' = {} /\ place \notin {"failed", "early", "queued", "failing"}
        BY <1>a, <1>t, <3>2 DEF ReviewInv, Hope, OnItsRun, Holds, CurrentRun, Working, IsActive
      <3> QED
        BY <3>1, <3>2
    <2>3. \A k \in Jobs : pc'[k] = "posted" => posted' # {}
      BY <1>a, <1>t DEF ReviewInv
    <2> QED
      BY <2>1, <2>2, <2>3 DEF ReviewInv
  <1>1. CASE Claim(j)
    BY <1>1, ClaimReviewInv
  <1>2. CASE Start(j)
    <2>1. /\ pc' = [pc EXCEPT ![j] = "starting"]
          /\ pc[j] = "queued" /\ UNCHANGED <<prHead, slot, runs, head, posted>>
      BY <1>2, <1>t DEF Start, ResolveHead, Goto
    <2>2. HolderWorks'
      BY <1>t, <2>1 DEF ReviewInv, HolderWorks, HoldsFor, CurrentRun, Working, IsActive
    <2>3. Hope'
      BY <1>t, <2>1 DEF Hope
    <2> QED
      BY <1>t, <2>1, <2>2, <2>3 DEF ReviewInv
  <1>3. CASE ReturnEarly(j)
    BY <1>3, <1>a DEF ReturnEarly, Goto, jobVars
  <1>4. CASE Throw(j)
    BY <1>4, <1>a DEF Throw, Goto, jobVars
  <1>5. CASE Heal(j)
    BY <1>5, <1>t DEF Heal, Faultless
  <1>6. CASE CheckStillMine(j)
    <2> DEFINE place == IF StillMine(slot, CurrentRun(j)) THEN "cleared" ELSE "discarded"
    <2>1. /\ slot' = TouchReviewRun(slot, CurrentRun(j)) /\ pc' = [pc EXCEPT ![j] = place]
          /\ pc[j] = "reviewing" /\ UNCHANGED <<prHead, runs, head, posted>>
      BY <1>6, Served DEF CheckStillMine, Goto, jobVars, ReviewInv
    <2>2. slot'.runId = slot.runId /\ slot'.head = slot.head /\ slot'.status = slot.status
      BY <1>t, <2>1 DEF TouchReviewRun, Rows
    <2>3. Holds(slot, CurrentRun(j)) => place = "cleared"
      BY DEF StillMine
    <2> QED
      BY <1>a, <2>1, <2>2, <2>3 DEF IsActive, Working, HoldsFor, Holds
  <1>7. CASE BeginPosting(j)
    <2>1. /\ slot' = BeginPostingRun(slot, CurrentRun(j)) /\ pc' = [pc EXCEPT ![j] = "posting"]
          /\ pc[j] = "cleared" /\ UNCHANGED <<prHead, runs, head, posted>>
      BY <1>7, Served DEF BeginPosting, Goto, jobVars, ReviewInv
    <2>2. slot'.runId = slot.runId /\ slot'.head = slot.head /\ (IsActive(slot') <=> IsActive(slot))
      BY <1>t, <2>1 DEF BeginPostingRun, Rows, Holds, IsActive, ActiveStatuses
    <2> QED
      BY <1>a, <2>1, <2>2 DEF Working
  <1>8. CASE Post(j)
    BY <1>8, <1>a DEF Post, Goto, jobVars, Working
  <1>9. CASE Finish(j)
    <2>1. /\ slot' = FinishReviewRun(slot, CurrentRun(j)) /\ pc' = [pc EXCEPT ![j] = "reviewed"]
          /\ pc[j] = "posted" /\ UNCHANGED <<prHead, runs, head, posted>> /\ posted # {}
      BY <1>9, Served DEF Finish, Goto, jobVars, ReviewInv
    <2>2. /\ slot'.runId = slot.runId /\ slot'.head = slot.head /\ (IsActive(slot') => IsActive(slot))
          /\ HoldsFor(j) => ~IsActive(slot')
      BY <1>t, <2>1 DEF FinishReviewRun, Rows, HoldsFor, IsActive, ActiveStatuses
    <2> QED
      BY <1>a, <2>1, <2>2
  <1>10. CASE HandleFailure(j)
    <2>1. /\ slot' = FailReviewRunForHead(slot, head[j]) /\ pc[j] = "failing"
          /\ UNCHANGED <<prHead, runs, head, posted>>
          /\ Requeue(j) \/ GiveUp(j)
      BY <1>10, <1>t, Served DEF HandleFailure, ReviewInv
    <2>2. PICK place \in {"queued", "failed"} : pc' = [pc EXCEPT ![j] = place]
      BY <2>1 DEF Requeue, GiveUp, Goto
    <2>3. /\ slot'.runId = slot.runId /\ slot'.head = slot.head /\ (IsActive(slot') => IsActive(slot))
          /\ HoldsFor(j) => ~IsActive(slot')
      BY <1>t, <2>1 DEF FailReviewRunForHead, Rows, HoldsFor, IsActive, ActiveStatuses
    <2> QED
      BY <1>a, <2>1, <2>2, <2>3
  <1> QED
    BY <1>1, <1>2, <1>3, <1>4, <1>5, <1>6, <1>7, <1>8, <1>9, <1>10 DEF JobStep

(* Every step of the system preserves the invariant about reviews. *)
LEMMA NextReviewInv ==
  ASSUME Faultless, ReviewInv, [Next]_vars
  PROVE  ReviewInv'
  <1> USE DEF Faultless
  <1>a. TypeInv /\ TypeInv'
    BY NextTypeInv DEF ReviewInv
  <1>t. /\ pc \in [Jobs -> PCs] /\ head \in [Jobs -> HeadOrNone] /\ slot \in Rows
        /\ runs \in [Jobs -> Nat] /\ lost = 0 /\ \A j \in Jobs : heals[j] = 0
    BY <1>a DEF TypeInv, TypeOK
  <1>1. CASE \E j \in Webhooks : Push(j) \/ Reopen(j)
    <2> PICK j \in Webhooks : Push(j) \/ Reopen(j)
      BY <1>1
    <2>1. j \in Jobs /\ pc[j] = "idle"
      BY DEF Push, Reopen, Jobs
    <2>2. /\ pc' = [pc EXCEPT ![j] = "queued"] /\ slot' = slot /\ runs' = runs
          /\ posted' = posted /\ \A k \in Jobs : k # j => head'[k] = head[k]
      BY <1>t, <2>1 DEF Push, Reopen, Goto
    <2>3. Hope'
      BY <1>t, <2>1, <2>2 DEF Hope
    <2>4. HolderWorks'
      BY <1>t, <2>1, <2>2 DEF ReviewInv, HolderWorks, HoldsFor, CurrentRun, Working, IsActive
    <2> QED
      BY <1>a, <1>t, <2>1, <2>2, <2>3, <2>4 DEF ReviewInv
  <1>2. CASE \E j \in Jobs : JobStep(j)
    BY <1>2, <1>a, JobStepReviewInv
  <1>3. CASE Tick
    <2>1. \/ slot' = slot \/ slot' = [slot EXCEPT !.quiet = 0] \/ slot' = [slot EXCEPT !.quiet = @ + 1]
      BY <1>3 DEF Tick, Keeps
    <2>2. /\ slot'.runId = slot.runId /\ slot'.head = slot.head /\ slot'.status = slot.status
          /\ pc' = pc /\ runs' = runs /\ head' = head /\ posted' = posted /\ prHead' = prHead
      BY <1>3, <1>t, <2>1 DEF Tick, jobVars, Rows
    <2> QED
      BY <1>a, <2>2, Unmoved
  <1>4. CASE UNCHANGED vars
    BY <1>4, <1>a, Unmoved DEF vars
  <1>5. ~(\E c \in Commands : Comment(c)) /\ ~(\E j \in Jobs : Crash(j)) /\ ~RestartControlPlane
    BY <1>a DEF Crash, RestartControlPlane, TypeInv, TypeOK
  <1> QED
    BY <1>1, <1>2, <1>3, <1>4, <1>5 DEF Next

(***************************************************************************)
(* Between webhooks, with nothing lost, crashed or healed, once every job  *)
(* has ended some review was posted, unless a job failed or found nothing  *)
(* to review (the three rules of run.ts, the early returns of runReview).  *)
(***************************************************************************)
THEOREM SomeReviewLands ==
  ASSUME Faultless
  PROVE  Spec => []NoReviewLost
  <1>1. ReviewInv => NoReviewLost
    BY DEF ReviewInv, Hope, NoReviewLost, Quiescent, OnItsRun, Working, Ended
  <1>2. ReviewInv /\ [Next]_vars => ReviewInv'
    BY NextReviewInv
  <1> QED
    BY <1>1, <1>2, InitReviewInv, PTL DEF Spec

-----------------------------------------------------------------------------
(***************************************************************************)
(* The slot is a lease, for every number of jobs, runs and faults.         *)
(***************************************************************************)

(* Who holds the row is a run: an id, not the mark of an empty row. *)
RunHolds == IsActive(slot) => slot.runId \in Runs

LeaseInv == TypeInv /\ RunHolds

(* A run's id is never the mark of an empty row. *)
LEMMA RunIsNotNoId == ASSUME NEW r \in Runs PROVE r # NoId
  BY DEF Runs, NoId

(* The first state satisfies the invariant about the holder. *)
LEMMA InitLeaseInv == Init => LeaseInv
  BY InitTypeInv DEF Init, LeaseInv, RunHolds, Absent, IsActive, ActiveStatuses

(* Every step preserves the invariant about the holder. *)
LEMMA NextLeaseInv == LeaseInv /\ [Next]_vars => LeaseInv'
  <1> SUFFICES ASSUME LeaseInv, [Next]_vars PROVE LeaseInv'
    OBVIOUS
  <1>1. TypeInv'
    BY NextTypeInv DEF LeaseInv
  <1>2. CASE \E j \in Jobs : Granted(j)
    <2> PICK j \in Jobs : Granted(j)
      BY <1>2
    <2>1. <<j, runs[j] + 1>> \in Runs
      BY TypeFacts DEF LeaseInv
    <2>2. slot'.runId = <<j, runs[j] + 1>>
      BY DEF Granted, FreshRun
    <2> QED
      BY <1>1, <2>1, <2>2 DEF LeaseInv, RunHolds
  <1>3. CASE RestartControlPlane
    BY <1>1, <1>3 DEF RestartControlPlane, Absent, IsActive, ActiveStatuses, LeaseInv, RunHolds
  <1>4. CASE Kept
    BY <1>1, <1>4 DEF Kept, LeaseInv, RunHolds
  <1> QED
    BY <1>2, <1>3, <1>4, SlotSteps DEF LeaseInv

(* The first row is the lease that nobody holds or asked for. *)
LEMMA InitIsALease == Init => Lease!Init
  <1> SUFFICES ASSUME Init PROVE Lease!Init
    OBVIOUS
  <1>1. ~IsActive(slot) /\ slot.status # "posting"
    BY DEF Init, Absent, IsActive, ActiveStatuses
  <1>2. Issued = {}
    <2>1. \A j \in Jobs : 1..runs[j] = {}
      BY DEF Init
    <2> QED
      BY <2>1 DEF Issued
  <1> QED
    BY <1>1, <1>2 DEF Lease!Init, Holder, Sealed, Lapsed

(* A step that leaves the row alone and forgets no run. *)
LEMMA RowUntouched ==
  ASSUME LeaseInv, slot' = slot, Issued \subseteq Issued'
  PROVE  Lease!Next
  BY DEF Lease!Next, Lease!Pass, Holder, Sealed, Lapsed

(* Every store operation but a claim, and the ageing of a row, is a step of *)
(* the lease.                                                               *)
LEMMA OperationIsAStep ==
  ASSUME LeaseInv, runs' = runs, NEW r, NEW h,
         \/ slot' = slot
         \/ slot' = TouchReviewRun(slot, r)
         \/ slot' = BeginPostingRun(slot, r)
         \/ slot' = FinishReviewRun(slot, r)
         \/ slot' = FailReviewRunForHead(slot, h)
  PROVE  Lease!Next
  <1>1. Issued' = Issued
    BY DEF Issued
  <1>2. slot \in Rows /\ (IsActive(slot) => slot.runId # NoId)
    BY TypeFacts, RunIsNotNoId DEF LeaseInv, RunHolds
  <1> USE StaleAfterAssumption DEF Holder, Sealed, Lapsed, Rows, IsActive, ActiveStatuses, Holds, Stale
  <1>3. CASE slot' = slot
    BY <1>1, <1>3, RowUntouched
  <1>4. CASE slot' = TouchReviewRun(slot, r) /\ slot' # slot
    BY <1>1, <1>2, <1>4 DEF TouchReviewRun, Lease!Next, Lease!Report
  <1>5. CASE slot' = BeginPostingRun(slot, r) /\ slot' # slot
    BY <1>1, <1>2, <1>5 DEF BeginPostingRun, Lease!Next, Lease!Seal
  <1>6. CASE slot' = FinishReviewRun(slot, r) /\ slot' # slot
    BY <1>1, <1>2, <1>6 DEF FinishReviewRun, Lease!Next, Lease!Leave
  <1>7. CASE slot' = FailReviewRunForHead(slot, h) /\ slot' # slot
    BY <1>1, <1>2, <1>7 DEF FailReviewRunForHead, Lease!Next, Lease!Leave
  <1> QED
    BY <1>3, <1>4, <1>5, <1>6, <1>7

(* The runs made are those made before and those of this step. *)
LEMMA ClaimIssues ==
  ASSUME TypeInv, NEW j \in Jobs, Claim(j)
  PROVE  Issued' = Issued \cup {<<j, runs[j] + 1>>} /\ <<j, runs[j] + 1>> \notin Issued
  <1>1. runs[j] \in Nat /\ runs' = [runs EXCEPT ![j] = @ + 1]
    BY DEF Claim, TypeInv, TypeOK
  <1>2. 1..runs'[j] = (1..runs[j]) \cup {runs[j] + 1} /\ runs[j] + 1 \notin 1..runs[j]
    BY <1>1 DEF TypeInv, TypeOK
  <1>3. \A k \in Jobs : k # j => runs'[k] = runs[k]
    BY <1>1 DEF TypeInv, TypeOK
  <1>4. \A k \in Jobs : {<<k, n>> : n \in 1..runs'[k]} =
          {<<k, n>> : n \in 1..runs[k]} \cup (IF k = j THEN {<<j, runs[j] + 1>>} ELSE {})
    BY <1>2, <1>3
  <1>5. Issued' = Issued \cup {<<j, runs[j] + 1>>}
    BY <1>4 DEF Issued
  <1>6. <<j, runs[j] + 1>> \notin Issued
    BY <1>2 DEF Issued
  <1> QED
    BY <1>5, <1>6

(* A claim that is granted takes the lease; one that is refused, or whose   *)
(* request is lost, passes.                                                 *)
LEMMA ClaimIsAStep ==
  ASSUME LeaseInv, NEW j \in Jobs, Claim(j)
  PROVE  Lease!Next
  <1> DEFINE r == <<j, runs[j] + 1>>
  <1>1. Issued' = Issued \cup {r} /\ r \notin Issued /\ r # NoId
    BY ClaimIssues, TypeFacts, RunIsNotNoId DEF LeaseInv
  <1>2. CASE slot' = slot
    BY <1>1, <1>2, RowUntouched
  <1>3. CASE /\ slot' = FreshRun(r, head[j])
             /\ DecideClaim(slot, head[j], IsCommand(j)) = "claimed"
    <2>1. Sealed => Lapsed
      BY <1>3 DEF DecideClaim, Free, Sealed, Lapsed, IsActive, ActiveStatuses
    <2>2. IsActive(slot') /\ slot'.runId = r /\ slot'.status = "running" /\ ~Stale(slot')
      BY <1>3, StaleAfterAssumption DEF FreshRun, IsActive, ActiveStatuses, Stale
    <2>3. Holder' = r /\ Sealed' = FALSE /\ Lapsed' = FALSE
      BY <2>2 DEF Holder, Sealed, Lapsed
    <2> QED
      BY <1>1, <2>1, <2>3 DEF Lease!Next, Lease!Take
  <1>4. slot' = slot \/ slot' = ClaimReviewRun(slot, r, head[j], IsCommand(j))
    BY DEF Claim, Call
  <1> QED
    BY <1>2, <1>3, <1>4 DEF ClaimReviewRun

(* A heartbeat period is a report, or the holder lapses, or nothing.        *)
LEMMA TickIsAStep ==
  ASSUME LeaseInv, Tick
  PROVE  Lease!Next
  <1>1. runs' = runs /\ Issued' = Issued
    BY DEF Tick, jobVars, Issued
  <1>2. slot \in Rows /\ (IsActive(slot) => slot.runId # NoId)
    BY TypeFacts, RunIsNotNoId DEF LeaseInv, RunHolds
  <1>3. \/ slot' = slot
        \/ IsActive(slot) /\ slot' = [slot EXCEPT !.quiet = 0]
        \/ IsActive(slot) /\ slot.quiet <= StaleAfter /\ slot' = [slot EXCEPT !.quiet = @ + 1]
    BY DEF Tick, Holds
  <1> USE StaleAfterAssumption DEF Holder, Sealed, Lapsed, Rows, IsActive, ActiveStatuses, Stale, Ages
  <1>4. CASE slot' = slot
    BY <1>1, <1>4, RowUntouched
  <1>5. CASE IsActive(slot) /\ slot' = [slot EXCEPT !.quiet = 0]
    BY <1>1, <1>2, <1>5 DEF Lease!Next, Lease!Report
  <1>6. CASE IsActive(slot) /\ slot.quiet <= StaleAfter /\ slot' = [slot EXCEPT !.quiet = @ + 1]
    <2>1. CASE Lapsed'
      BY <1>1, <1>2, <1>6, <2>1 DEF Lease!Next, Lease!Lapse
    <2>2. CASE ~Lapsed'
      BY <1>1, <1>2, <1>6, <2>2 DEF Lease!Next, Lease!Report
    <2> QED
      BY <2>1, <2>2
  <1> QED
    BY <1>3, <1>4, <1>5, <1>6

(* Every step of a job is a step of the lease. *)
LEMMA JobStepIsAStep ==
  ASSUME LeaseInv, NEW j \in Jobs, JobStep(j)
  PROVE  Lease!Next
  <1>1. CASE Claim(j)
    BY <1>1, ClaimIsAStep
  <1>2. CASE CheckStillMine(j)
    BY <1>2, OperationIsAStep DEF CheckStillMine, Call, jobVars
  <1>3. CASE BeginPosting(j)
    BY <1>3, OperationIsAStep DEF BeginPosting, Call, jobVars
  <1>4. CASE Finish(j)
    BY <1>4, OperationIsAStep DEF Finish, Call, jobVars
  <1>5. CASE HandleFailure(j)
    <2>1. /\ runs' = runs
          /\ slot' = slot \/ slot' = FailReviewRunForHead(slot, head[j])
      BY <1>5 DEF HandleFailure, Call
    <2> QED
      BY <2>1, OperationIsAStep
  <1>6. CASE Start(j) \/ ReturnEarly(j) \/ Throw(j) \/ Heal(j) \/ Post(j)
    <2>1. runs' = runs /\ slot' = slot
      BY <1>6 DEF Start, ReturnEarly, Throw, Heal, Post, jobVars
    <2> QED
      BY <2>1, OperationIsAStep
  <1> QED
    BY <1>1, <1>2, <1>3, <1>4, <1>5, <1>6 DEF JobStep

(* Every step of the system is a step of the lease. *)
LEMMA NextIsAStep == LeaseInv /\ [Next]_vars => [Lease!Next]_Lease!vars
  <1> SUFFICES ASSUME LeaseInv, [Next]_vars PROVE Lease!Next
    OBVIOUS
  <1>1. CASE \E j \in Jobs : JobStep(j)
    BY <1>1, JobStepIsAStep
  <1>2. CASE Tick
    BY <1>2, TickIsAStep
  <1>3. CASE RestartControlPlane
    <2>1. Issued' = Issued /\ ~IsActive(slot') /\ slot'.status # "posting"
      BY <1>3 DEF RestartControlPlane, Issued, jobVars, Absent, IsActive, ActiveStatuses
    <2> QED
      BY <2>1 DEF Lease!Next, Lease!Leave, Holder, Sealed, Lapsed
  <1>4. CASE \/ \E j \in Webhooks : Push(j) \/ Reopen(j)
             \/ (\E c \in Commands : Comment(c)) \/ (\E j \in Jobs : Crash(j)) \/ UNCHANGED vars
    <2>1. runs' = runs /\ slot' = slot
      BY <1>4 DEF Push, Reopen, Comment, Crash, vars, jobVars
    <2> QED
      BY <2>1, OperationIsAStep
  <1> QED
    BY <1>1, <1>2, <1>3, <1>4 DEF Next

(***************************************************************************)
(* The jobs, their timers and the control plane implement the lease: a     *)
(* review that writes is not interrupted unless it was silent for the      *)
(* whole stale window, and whoever lost the slot never has it again.       *)
(***************************************************************************)
THEOREM SlotIsALeaseAlways == Spec => SlotIsALease
  BY InitIsALease, InitLeaseInv, NextLeaseInv, NextIsAStep, PTL DEF Spec, SlotIsALease, Lease!Spec
=============================================================================
