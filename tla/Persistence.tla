----------------------------- MODULE Persistence -----------------------------
(***************************************************************************)
(* The control plane's store and its one snapshot row in Postgres.         *)
(*                                                                         *)
(* The store lives in the memory of one process.  It is loaded from the    *)
(* row at boot and written back whole by a timer, and a last time when the *)
(* process is told to stop.  A process that cannot reach the database at   *)
(* boot serves reads only and tries again.  What the store holds is a set  *)
(* of accepted writes (and the demo seed); a snapshot is the set of those  *)
(* it contains.                                                            *)
(***************************************************************************)
EXTENDS Integers

CONSTANTS
  Demo,        \* CAVIX_DEMO: an empty store is seeded at boot
  MaxWrites,   \* bound: requests that change the store
  MaxAttempts, \* PERSISTENCE_ATTEMPTS (30 in the code)
  MaxSleeps,   \* bound: times the database becomes unreachable
  MaxDrops,    \* bound: answers lost with their connection
  MaxLives     \* bound: processes started, one after the other

PersistenceAssumption ==
  /\ Demo \in BOOLEAN
  /\ MaxWrites \in Nat /\ MaxAttempts \in Nat \ {0}
  /\ MaxSleeps \in Nat /\ MaxDrops \in Nat /\ MaxLives \in Nat

VARIABLES
  phase,    \* of the process: see Phases
  mem,      \* the store in memory
  hasRow,   \* the row exists
  row,      \* what it holds
  saving,   \* the timer's save is in flight ...
  snap,     \* ... with this snapshot
  last,     \* the snapshot the timer last knew to be saved
  fresh,    \* it knows of none yet (last = "")
  closing,  \* the final save: "no", "flying" or "done" ...
  final,    \* ... with this snapshot
  up,       \* the database answers
  attempts, \* tries of the background recovery
  acked,    \* history: the writes that were answered with success
  sleeps, drops, lives  \* counters of the bounded faults

dbVars == <<hasRow, row>>
tickVars == <<saving, snap, last, fresh>>
stopVars == <<closing, final>>
faultVars == <<sleeps, drops, lives>>
vars == <<phase, mem, dbVars, tickVars, stopVars, up, attempts, acked, faultVars>>

Phases == {"down", "recovering", "gaveup", "serving", "stopping"}
Seed == 0
Items == 0..MaxWrites

Init ==
  /\ phase = "down" /\ mem = {} /\ hasRow = FALSE /\ row = {}
  /\ saving = FALSE /\ snap = {} /\ last = {} /\ fresh = TRUE
  /\ closing = "no" /\ final = {}
  /\ up = TRUE /\ attempts = 0 /\ acked = {}
  /\ sleeps = 0 /\ drops = 0 /\ lives = 0

(* The demo workspace goes into a store that is empty after the first try. *)
Seeded(m) == IF m = {} /\ Demo THEN {Seed} ELSE m

(***************************************************************************)
(* main: connect and load; when that fails, serve reads and recover in the *)
(* background.                                                             *)
(***************************************************************************)
Boot ==
  /\ phase = "down" /\ lives < MaxLives /\ lives' = lives + 1
  /\ phase' = IF up THEN "serving" ELSE "recovering"
  /\ mem' = Seeded(IF up /\ hasRow THEN row ELSE {})
  /\ saving' = FALSE /\ snap' = {} /\ last' = {} /\ fresh' = TRUE
  /\ closing' = "no" /\ final' = {} /\ attempts' = 0
  /\ UNCHANGED <<dbVars, up, acked, sleeps, drops>>

(***************************************************************************)
(* retryPersistence: the durable copy wins over what is in memory, and the *)
(* write gate opens in the same step that starts the autosave.             *)
(***************************************************************************)

Recovered(m) == IF hasRow THEN row ELSE m

Recover ==
  /\ phase = "recovering" /\ up
  /\ mem' = Recovered(mem)
  /\ phase' = "serving"
  /\ UNCHANGED <<dbVars, tickVars, stopVars, up, attempts, acked, faultVars>>

(* A try that fails; after the last one the gate stays shut for good. *)

RetryFails ==
  /\ phase = "recovering" /\ ~up
  /\ attempts' = attempts + 1
  /\ phase' = IF attempts' = MaxAttempts THEN "gaveup" ELSE "recovering"
  /\ UNCHANGED <<mem, dbVars, tickVars, stopVars, up, acked, faultVars>>

(***************************************************************************)
(* route: a mutation is answered with 503 while readOnly says so.  Until   *)
(* the process has exited it is still listening, also while it stops.      *)
(***************************************************************************)
\* Mutant: writes are taken while the store is recovered.
GateOpenAlways == phase \in {"recovering", "serving", "stopping"}

GateOpen == phase \in {"serving", "stopping"}

Accept(w) ==
  /\ GateOpen
  /\ w \notin acked
  /\ mem' = mem \cup {w}
  /\ acked' = acked \cup {w}
  /\ UNCHANGED <<phase, dbVars, tickVars, stopVars, up, attempts, faultVars>>

(***************************************************************************)
(* startAutosave's tick: nothing while a save is in flight or the store is *)
(* what was saved last.                                                    *)
(***************************************************************************)
TickDue == phase = "serving" /\ ~saving /\ (fresh \/ mem # last)

Tick ==
  /\ TickDue
  /\ saving' = TRUE /\ snap' = mem
  /\ UNCHANGED <<phase, mem, dbVars, last, fresh, stopVars, up, attempts, acked, faultVars>>

(* save: an empty snapshot does not replace a workspace. *)
Refused(s) == s = {} /\ hasRow /\ row # {}
Stored(s) == hasRow' = TRUE /\ row' = s

TickSaved ==
  /\ saving /\ up /\ ~Refused(snap)
  /\ Stored(snap)
  /\ saving' = FALSE /\ last' = snap /\ fresh' = FALSE /\ snap' = {}
  /\ UNCHANGED <<phase, mem, stopVars, up, attempts, acked, faultVars>>

(* The query failed, before it reached the database or after: onError. *)
\* Mutant: the snapshot counts as saved before it is.
TickFailedRemembers ==
  /\ saving /\ ~up /\ UNCHANGED <<dbVars, drops>>
  /\ saving' = FALSE /\ snap' = {} /\ last' = snap /\ fresh' = FALSE
  /\ UNCHANGED <<phase, mem, stopVars, up, attempts, acked, sleeps, lives>>

TickFailed ==
  /\ saving
  /\ \/ (~up \/ Refused(snap)) /\ UNCHANGED <<dbVars, drops>>
     \/ up /\ ~Refused(snap) /\ drops < MaxDrops /\ drops' = drops + 1 /\ Stored(snap)
  /\ saving' = FALSE /\ snap' = {}
  /\ UNCHANGED <<phase, mem, last, fresh, stopVars, up, attempts, acked, sleeps, lives>>

(***************************************************************************)
(* shutdown: without an autosave the process just exits.  With one, its    *)
(* stop sends a last snapshot over the pool while the timer's save may be  *)
(* in flight on another connection; close waits for both.                  *)
(***************************************************************************)
Stop ==
  /\ \/ phase \in {"recovering", "gaveup"} /\ phase' = "down" /\ mem' = {} /\ UNCHANGED stopVars
     \/ phase = "serving" /\ phase' = "stopping" /\ closing' = "flying" /\ final' = mem /\ UNCHANGED mem
  /\ UNCHANGED <<dbVars, tickVars, up, attempts, acked, faultVars>>

FinalSave ==
  /\ closing = "flying"
  /\ \/ up /\ ~Refused(final) /\ Stored(final)
     \/ (~up \/ Refused(final)) /\ UNCHANGED dbVars
  /\ closing' = "done" /\ final' = {}
  /\ UNCHANGED <<phase, mem, tickVars, up, attempts, acked, faultVars>>

Exit ==
  /\ closing = "done" /\ ~saving
  /\ phase' = "down" /\ closing' = "no" /\ mem' = {}
  /\ UNCHANGED <<dbVars, tickVars, final, up, attempts, acked, faultVars>>

(* The process is killed; a save in flight reached the database or did not. *)
Crash ==
  /\ phase # "down"
  /\ \/ saving /\ up /\ ~Refused(snap) /\ Stored(snap)
     \/ UNCHANGED dbVars
  /\ phase' = "down" /\ mem' = {} /\ closing' = "no" /\ final' = {}
  /\ saving' = FALSE /\ snap' = {}
  /\ UNCHANGED <<last, fresh, up, attempts, acked, faultVars>>

(* Managed Postgres suspends, fails over and is maintained. *)
Sleep ==
  /\ up /\ sleeps < MaxSleeps /\ sleeps' = sleeps + 1
  /\ up' = FALSE
  /\ UNCHANGED <<phase, mem, dbVars, tickVars, stopVars, attempts, acked, drops, lives>>

Wake ==
  /\ ~up /\ up' = TRUE
  /\ UNCHANGED <<phase, mem, dbVars, tickVars, stopVars, attempts, acked, faultVars>>

Next ==
  \/ Boot \/ Recover \/ RetryFails
  \/ \E w \in 1..MaxWrites : Accept(w)
  \/ Tick \/ TickSaved \/ TickFailed
  \/ Stop \/ FinalSave \/ Exit \/ Crash
  \/ Sleep \/ Wake

Spec == Init /\ [][Next]_vars

(* setInterval fires, a query is answered or fails, the database wakes up. *)
Fairness == WF_vars(Tick) /\ WF_vars(TickSaved \/ TickFailed) /\ WF_vars(Wake)
FairSpec == Spec /\ Fairness

-----------------------------------------------------------------------------
(* Every variable has its type. *)
TypeOK ==
  /\ phase \in Phases /\ closing \in {"no", "flying", "done"}
  /\ mem \subseteq Items /\ row \subseteq Items /\ snap \subseteq Items
  /\ last \subseteq Items /\ final \subseteq Items /\ acked \subseteq 1..MaxWrites
  /\ hasRow \in BOOLEAN /\ saving \in BOOLEAN /\ fresh \in BOOLEAN /\ up \in BOOLEAN
  /\ attempts \in 0..MaxAttempts
  /\ sleeps \in 0..MaxSleeps /\ drops \in 0..MaxDrops /\ lives \in 0..MaxLives

(***************************************************************************)
(* The write gate of server.ts: "anything written now is discarded a few   *)
(* seconds later" is why writes are refused while the store is recovered.  *)
(* So a process never drops a write it accepted, while it lives; and while *)
(* none is shutting down the row only ever gains: an older snapshot never  *)
(* lands on a newer one, whichever saves failed, were lost after they      *)
(* landed or were cut off by a crash, and no boot starts the row over.  (A *)
(* demo seed is not a workspace's data.)                                   *)
(***************************************************************************)
AcceptedIsKept ==
  [][/\ phase' # "down" => mem \cap acked \subseteq mem'
     /\ phase = "stopping" \/ row \cap acked \subseteq row']_vars

(***************************************************************************)
(* The timer skips a store it takes to be saved ("only when it changed").  *)
(* It is right: whenever it would skip, the row is the store.              *)
(***************************************************************************)
SkippedMeansStored ==
  phase = "serving" /\ ~saving /\ ~TickDue => hasRow /\ row = mem

(***************************************************************************)
(* A write accepted by a process that goes on serving reaches the row in   *)
(* the end, however often the database was away or an answer was lost.     *)
(***************************************************************************)
EventuallySaved ==
  \A w \in 1..MaxWrites : (w \in mem) ~> (w \in row \/ phase # "serving")
=============================================================================
