-------------------------- MODULE Persistence_proof --------------------------
(***************************************************************************)
(* No accepted write is dropped, and none is taken for saved that is not,  *)
(* for any number of writes, outages, lost answers and processes.          *)
(***************************************************************************)
EXTENDS Persistence, TLAPS

(* Whatever is in a copy was accepted, or is the seed. *)
Owned == mem \cup row \cup snap \cup last \cup final \subseteq acked \cup {Seed}

(* A process that does not serve has nothing anybody would miss, and saves nothing. *)
NotServing ==
  /\ phase = "down" => mem = {}
  /\ phase \in {"recovering", "gaveup"} => mem \subseteq {Seed} /\ fresh
  /\ phase \in {"down", "recovering", "gaveup"} => ~saving
  /\ phase # "stopping" => closing = "no"
  /\ ~hasRow => row = {}

(* The store of a process that serves holds the row, and its snapshot, too. *)
RowIsOlder ==
  phase = "serving" =>
    /\ row \cap acked \subseteq mem
    /\ saving => snap \subseteq mem /\ row \cap acked \subseteq snap

(* What the timer last saved is in the store, and is the row, unless the    *)
(* store has grown since; a snapshot in flight is newer than it.            *)
LastIsOlder ==
  phase = "serving" /\ ~fresh =>
    /\ last \subseteq mem
    /\ saving => last \subseteq snap /\ snap # last
    /\ mem = last => hasRow /\ row = mem

(* A process that recovers has a try left. *)
TryLeft == phase = "recovering" => attempts < MaxAttempts

StoreInv == TypeOK /\ TryLeft /\ Owned /\ NotServing /\ RowIsOlder /\ LastIsOlder

(* The empty store satisfies the invariant. *)
LEMMA InitStoreInv == ASSUME PersistenceAssumption, Init PROVE StoreInv
  <1>1. hasRow \in BOOLEAN /\ saving \in BOOLEAN /\ fresh \in BOOLEAN /\ up \in BOOLEAN
    BY DEF Init
  <1>2. /\ phase \in Phases /\ closing \in {"no", "flying", "done"}
        /\ mem = {} /\ row = {} /\ snap = {} /\ last = {} /\ final = {} /\ acked = {}
    BY DEF Init, Phases
  <1>3. attempts = 0 /\ sleeps = 0 /\ drops = 0 /\ lives = 0
    BY DEF Init
  <1>4. TypeOK
    BY <1>1, <1>2, <1>3 DEF PersistenceAssumption, TypeOK
  <1>5. TryLeft /\ Owned /\ NotServing /\ RowIsOlder /\ LastIsOlder
    BY DEF Init, TryLeft, Owned, NotServing, RowIsOlder, LastIsOlder
  <1> QED
    BY <1>4, <1>5 DEF StoreInv

(* Every step keeps the numbers within their bounds. *)
LEMMA NextCounts == 
  ASSUME PersistenceAssumption, TypeOK, TryLeft, [Next]_vars
  PROVE  /\ attempts' \in 0..MaxAttempts /\ TryLeft'
         /\ sleeps' \in 0..MaxSleeps /\ drops' \in 0..MaxDrops /\ lives' \in 0..MaxLives
  <1> USE DEF TryLeft
  <1>0. /\ MaxAttempts \in Nat \ {0} /\ MaxSleeps \in Nat /\ MaxDrops \in Nat /\ MaxLives \in Nat
        /\ attempts \in 0..MaxAttempts
        /\ sleeps \in 0..MaxSleeps /\ drops \in 0..MaxDrops /\ lives \in 0..MaxLives
    BY DEF PersistenceAssumption, TypeOK
  <1>1. CASE Boot
    <2>1. attempts' = 0 /\ sleeps' = sleeps /\ drops' = drops /\ lives < MaxLives /\ lives' = lives + 1
      BY <1>1 DEF Boot
    <2> QED
      BY <1>0, <2>1
  <1>2. CASE Recover
    <2>1. attempts' = attempts /\ sleeps' = sleeps /\ drops' = drops /\ lives' = lives /\ phase' = "serving"
      BY <1>2 DEF Recover, faultVars
    <2> QED
      BY <1>0, <2>1
  <1>3. CASE RetryFails
    <2>1. /\ phase = "recovering" /\ attempts' = attempts + 1
          /\ phase' = IF attempts' = MaxAttempts THEN "gaveup" ELSE "recovering"
          /\ sleeps' = sleeps /\ drops' = drops /\ lives' = lives
      BY <1>3 DEF RetryFails, faultVars
    <2> QED
      BY <1>0, <2>1
  <1>4. CASE TickFailed
    <2>1. /\ attempts' = attempts /\ phase' = phase /\ sleeps' = sleeps /\ lives' = lives
          /\ drops' = drops \/ (drops < MaxDrops /\ drops' = drops + 1)
      BY <1>4 DEF TickFailed, dbVars
    <2> QED
      BY <1>0, <2>1
  <1>5. CASE Sleep
    <2>1. /\ attempts' = attempts /\ phase' = phase /\ drops' = drops /\ lives' = lives
          /\ sleeps < MaxSleeps /\ sleeps' = sleeps + 1
      BY <1>5 DEF Sleep
    <2> QED
      BY <1>0, <2>1
  <1>6. CASE \/ \E w \in 1..MaxWrites : Accept(w)
             \/ Tick \/ TickSaved \/ Stop \/ FinalSave \/ Exit \/ Crash \/ Wake \/ UNCHANGED vars
    <2>1. /\ attempts' = attempts /\ sleeps' = sleeps /\ drops' = drops /\ lives' = lives
          /\ phase' = phase \/ phase' # "recovering"
      BY <1>6 DEF Accept, Tick, TickSaved, Stop, FinalSave, Exit, Crash, Wake, vars, faultVars
    <2> QED
      BY <1>0, <2>1
  <1> QED
    BY <1>1, <1>2, <1>3, <1>4, <1>5, <1>6 DEF Next

(* Every step keeps the types. *)
LEMMA NextTypes == ASSUME PersistenceAssumption, TypeOK, TryLeft, [Next]_vars PROVE TypeOK'
  <1> DEFINE Bits == hasRow \in BOOLEAN /\ saving \in BOOLEAN /\ fresh \in BOOLEAN /\ up \in BOOLEAN
             Places == phase \in Phases /\ closing \in {"no", "flying", "done"}
             Copies == /\ mem \subseteq Items /\ row \subseteq Items /\ snap \subseteq Items
                       /\ last \subseteq Items /\ final \subseteq Items /\ acked \subseteq 1..MaxWrites
  <1>1. Bits'
    BY Zenon DEF TypeOK, Next, vars, Boot, Recover, RetryFails, Accept, Tick, TickSaved, TickFailed, Stop,
       FinalSave, Exit, Crash, Sleep, Wake, dbVars, tickVars, stopVars, Stored
  <1>2. Places'
    BY DEF TypeOK, Next, vars, Boot, Recover, RetryFails, Accept, Tick, TickSaved, TickFailed, Stop,
       FinalSave, Exit, Crash, Sleep, Wake, stopVars, Phases
  <1>3. Copies'
    <2>1. {Seed} \subseteq Items /\ 1..MaxWrites \subseteq Items
      BY DEF PersistenceAssumption, Seed, Items
    <2> QED
      BY <2>1 DEF TypeOK, Next, vars, Boot, Recover, RetryFails, Accept, Tick, TickSaved, TickFailed, Stop,
         FinalSave, Exit, Crash, Sleep, Wake, dbVars, tickVars, stopVars, Stored, Seeded, Recovered
  <1> QED
    BY <1>1, <1>2, <1>3, NextCounts DEF TypeOK

(* Every step keeps what the copies of the store say of each other. *)
LEMMA NextStoreInv == ASSUME PersistenceAssumption, StoreInv, [Next]_vars PROVE StoreInv'
  <1>1. TypeOK' /\ TryLeft'
    BY NextTypes, NextCounts DEF StoreInv
  <1>2. Owned'
    BY DEF StoreInv, Owned, Next, vars, Boot, Recover, RetryFails, Accept, Tick, TickSaved, TickFailed, Stop,
       FinalSave, Exit, Crash, Sleep, Wake, dbVars, tickVars, stopVars, Stored, Seeded, Recovered
  <1>3. NotServing'
    BY DEF StoreInv, NotServing, Next, vars, Boot, Recover, RetryFails, Accept, Tick, TickSaved, TickFailed, Stop,
       FinalSave, Exit, Crash, Sleep, Wake, dbVars, tickVars, stopVars, Stored, Seeded, Recovered, GateOpen, TickDue
  <1>4. RowIsOlder'
    <2> USE DEF StoreInv, RowIsOlder, NotServing
    <2>1. CASE Boot
      BY <2>1 DEF Boot, dbVars, Seeded
    <2>2. CASE Recover
      BY <2>2 DEF Recover, dbVars, tickVars, Recovered
    <2>3. ASSUME NEW w \in 1..MaxWrites, Accept(w) PROVE RowIsOlder'
      <3>1. w \notin row
        BY <2>3 DEF Accept, Owned, Seed
      <3> QED
        BY <2>3, <3>1 DEF Accept, dbVars, tickVars
    <2>4. CASE Tick
      BY <2>4 DEF Tick, TickDue, dbVars
    <2>5. CASE TickSaved \/ TickFailed
      BY <2>5 DEF TickSaved, TickFailed, Stored, dbVars
    <2>6. CASE RetryFails \/ Stop \/ FinalSave \/ Exit \/ Crash \/ Sleep \/ Wake \/ UNCHANGED vars
      BY <2>6 DEF RetryFails, Stop, FinalSave, Exit, Crash, Sleep, Wake, vars, dbVars, tickVars, stopVars
    <2> QED
      BY <2>1, <2>2, <2>3, <2>4, <2>5, <2>6 DEF Next
  <1>5. LastIsOlder'
    <2> USE DEF StoreInv, LastIsOlder, NotServing
    <2>1. CASE Boot \/ Recover
      BY <2>1 DEF Boot, Recover, tickVars
    <2>2. ASSUME NEW w \in 1..MaxWrites, Accept(w) PROVE LastIsOlder'
      <3>1. w \in mem => mem' = mem
        BY <2>2 DEF Accept
      <3> QED
        BY <2>2, <3>1 DEF Accept, RowIsOlder, dbVars, tickVars
    <2>3. CASE Tick
      BY <2>3 DEF Tick, TickDue, dbVars
    <2>4. CASE TickSaved
      BY <2>4 DEF TickSaved, Stored, RowIsOlder
    <2>5. CASE TickFailed
      BY <2>5 DEF TickFailed, Stored, RowIsOlder, dbVars
    <2>6. CASE RetryFails \/ Stop \/ FinalSave \/ Exit \/ Crash \/ Sleep \/ Wake \/ UNCHANGED vars
      BY <2>6 DEF RetryFails, Stop, FinalSave, Exit, Crash, Sleep, Wake, vars, dbVars, tickVars, stopVars
    <2> QED
      BY <2>1, <2>2, <2>3, <2>4, <2>5, <2>6 DEF Next
  <1> QED
    BY <1>1, <1>2, <1>3, <1>4, <1>5 DEF StoreInv

(* The invariant, as every state of the store has it. *)
LEMMA StoreInvariant == ASSUME PersistenceAssumption PROVE Spec => []StoreInv
  <1>1. Init => StoreInv
    BY InitStoreInv
  <1>2. StoreInv /\ [Next]_vars => StoreInv'
    BY NextStoreInv
  <1> QED
    BY <1>1, <1>2, PTL DEF Spec

(* Every variable has its type, whatever the bounds are. *)
THEOREM StoreTypes == ASSUME PersistenceAssumption PROVE Spec => []TypeOK
  <1>1. StoreInv => TypeOK
    BY DEF StoreInv
  <1> QED
    BY <1>1, StoreInvariant, PTL

(* The timer of startAutosave skips a save only if the row is the store. *)
THEOREM SkippedIsStored == ASSUME PersistenceAssumption PROVE Spec => []SkippedMeansStored
  <1>1. StoreInv => SkippedMeansStored
    BY DEF StoreInv, LastIsOlder, SkippedMeansStored, TickDue
  <1> QED
    BY <1>1, StoreInvariant, PTL

(* No step takes an accepted write out of the memory of a process that      *)
(* lives, nor out of the row while none is shutting down: the write gate,   *)
(* the load at boot and the order of the saves together.                    *)
THEOREM AcceptedIsKeptAlways == ASSUME PersistenceAssumption PROVE Spec => AcceptedIsKept
  <1> DEFINE Kept == /\ phase' # "down" => mem \cap acked \subseteq mem'
                     /\ phase = "stopping" \/ row \cap acked \subseteq row'
  <1>1. ASSUME StoreInv, [Next]_vars PROVE Kept
    <2> USE DEF StoreInv
    <2>1. CASE Boot
      BY <1>1, <2>1 DEF Boot, NotServing, dbVars
    <2>2. CASE Recover
      <3>1. mem \cap acked = {}
        BY <1>1, <2>2 DEF Recover, NotServing, TypeOK, Seed
      <3> QED
        BY <1>1, <2>2, <3>1 DEF Recover, dbVars
    <2>3. CASE TickSaved \/ TickFailed
      BY <1>1, <2>3 DEF TickSaved, TickFailed, Stored, RowIsOlder, NotServing, dbVars, TypeOK, Phases
    <2>4. CASE FinalSave
      BY <1>1, <2>4 DEF FinalSave, NotServing
    <2>5. CASE Crash
      BY <1>1, <2>5 DEF Crash, Stored, RowIsOlder, NotServing, dbVars, TypeOK, Phases
    <2>6. ASSUME NEW w \in 1..MaxWrites, Accept(w) PROVE Kept
      BY <2>6 DEF Accept, dbVars
    <2>7. CASE RetryFails \/ Tick \/ Stop \/ Exit \/ Sleep \/ Wake \/ UNCHANGED vars
      BY <2>7 DEF RetryFails, Tick, Stop, Exit, Sleep, Wake, vars, dbVars
    <2> QED
      BY <1>1, <2>1, <2>2, <2>3, <2>4, <2>5, <2>6, <2>7 DEF Next
  <1>2. StoreInv /\ [Next]_vars => [Kept]_vars
    BY <1>1
  <1> QED
    BY <1>2, StoreInvariant, PTL DEF Spec, AcceptedIsKept
=============================================================================
