------------------------------- MODULE Handler -------------------------------
(***************************************************************************)
(* The review handlers of the orchestrator's processes, and which code     *)
(* host's client each job is reviewed through.                             *)
(*                                                                         *)
(* A process makes one handler, whose closure holds the default client as  *)
(* deps.github and the others in deps.platforms.  A job overwrites         *)
(* deps.github by its own client for the calls below it, and the closure   *)
(* outlives the job.  A process serves one job at a time: BullMQ's worker  *)
(* has its default concurrency, and the engine in the process is awaited.  *)
(***************************************************************************)
EXTENDS Integers

CONSTANTS
  Processes,   \* the workers' processes
  Hosts,       \* the platforms jobs may come from
  Default,     \* the platform of the client made first ("github")
  Configured,  \* the platforms of deps.platforms; the default is never among them
  Jobs,
  None,        \* no client, no job
  MaxThrows,   \* bound: handlers that throw
  MaxRestarts  \* bound: processes that end and are started again

VARIABLES
  platform,  \* of each job; never changes
  github,    \* of each process: the platform of the client at deps.github
  serving,   \* of each process: its job
  state,     \* of each job: "queued", "served", "dropped", "done"
  throws, restarts

vars == <<platform, github, serving, state, throws, restarts>>

Init ==
  /\ platform \in [Jobs -> Hosts]
  /\ github = [p \in Processes |-> Default]
  /\ serving = [p \in Processes |-> None]
  /\ state = [j \in Jobs |-> "queued"]
  /\ throws = 0 /\ restarts = 0

(* The client a handler finds for a job: what deps.github is NOW comes first. *)
ClientFor(p, j) ==
  IF platform[j] \in {github[p]} \cup Configured THEN platform[j] ELSE None

Free(p, j) == serving[p] = None /\ state[j] = "queued"

(* A job no client is found for: the handler logs and returns, and the queue takes it for done. *)
Drop(p, j) ==
  /\ Free(p, j) /\ ClientFor(p, j) = None
  /\ state' = [state EXCEPT ![j] = "dropped"]
  /\ UNCHANGED <<platform, github, serving, throws, restarts>>

Start(p, j) ==
  /\ Free(p, j) /\ ClientFor(p, j) # None
  /\ github' = [github EXCEPT ![p] = ClientFor(p, j)]
  /\ serving' = [serving EXCEPT ![p] = j]
  /\ state' = [state EXCEPT ![j] = "served"]
  /\ UNCHANGED <<platform, throws, restarts>>

(* The job of p leaves it, to be told done or to be queued again. *)
Leave(p, s) ==
  /\ serving[p] # None
  /\ serving' = [serving EXCEPT ![p] = None]
  /\ state' = [state EXCEPT ![serving[p]] = s]

Return(p) == Leave(p, "done") /\ UNCHANGED <<platform, github, throws, restarts>>

(* The handler throws, and the queue tries the job again. *)
Throw(p) ==
  /\ throws < MaxThrows
  /\ Leave(p, "queued")
  /\ throws' = throws + 1
  /\ UNCHANGED <<platform, github, restarts>>

(* The process ends; a stalled job is queued again, and the new process makes a handler anew. *)
Restart(p) ==
  /\ restarts < MaxRestarts
  /\ Leave(p, "queued") \/ (serving[p] = None /\ UNCHANGED <<serving, state>>)
  /\ github' = [github EXCEPT ![p] = Default]
  /\ restarts' = restarts + 1
  /\ UNCHANGED <<platform, throws>>

Next ==
  \E p \in Processes :
    \/ \E j \in Jobs : Drop(p, j) \/ Start(p, j)
    \/ Return(p) \/ Throw(p) \/ Restart(p)

Spec == Init /\ [][Next]_vars

-----------------------------------------------------------------------------
(* A job of the default platform, or of one with a client of its own, is never dropped: the default   *)
(* client is "the one every job uses unless `platforms` names another for it".                         *)
EveryHostIsServed ==
  \A j \in Jobs : state[j] = "dropped" => platform[j] \notin Configured \cup {Default}
=============================================================================
