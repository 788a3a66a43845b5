------------------------------ MODULE OrgIndex ------------------------------
(***************************************************************************)
(* What a workspace remembers of its repositories: the contract graph and  *)
(* the CI history.  Both are kept in the control plane, read and written   *)
(* by the orchestrator through a client with a one-minute cache, and       *)
(* refreshed after a review when the repository's part has gone stale:     *)
(*                                                                         *)
(*   src/services/orchestrator/src/orggraph/{store,indexer}.ts             *)
(*   src/services/orchestrator/src/telemetry/{store,ingest}.ts             *)
(*   the two internal routes of src/services/control-plane/src/server.ts   *)
(*                                                                         *)
(* Whole tells the two apart.  The graph is saved whole, as the job that   *)
(* refreshed one repository built it from the copy it had loaded; of the   *)
(* CI history a save replaces the job's own repository only.               *)
(***************************************************************************)
EXTENDS Integers, FiniteSets

CONSTANTS
  Repos,        \* repositories of one workspace
  Jobs,         \* refreshes that may be under way at once in one orchestrator
  Whole,        \* TRUE: the contract graph; FALSE: the CI history
  Window,       \* runs fetched at once                 (RUNS_PER_FETCH)
  Cap,          \* runs kept of a repository            (MAX_CI_RUNS_PER_REPO)
  MaxHead,      \* bound: versions of (or runs on) a repository's branch
  MaxFaults,    \* bound: calls that fail or whose answer is lost
  MaxRefreshes, \* bound: refreshes that are started
  NoCopy        \* nothing in the cache

\* What the constants are.
OrgIndexAssumption ==
  /\ Whole \in BOOLEAN /\ Window \in Nat \ {0} /\ Cap \in Nat \ {0}
  /\ MaxHead \in Nat /\ MaxFaults \in Nat /\ MaxRefreshes \in Nat

VARIABLES
  head,    \* newest version of (CI run on) each repository's default branch
  stored,  \* the control plane's record: the data of each repository, and
           \* which of them were refreshed within the stale window
  cached,  \* the orchestrator's copy of it, or NoCopy
  job,     \* each refresh: its phase, repository, loaded copy and what it read
  own,     \* what the refreshes of each repository, alone, would have stored
  faults, refreshes, raced

vars == <<head, stored, cached, job, own, faults, refreshes, raced>>

Items == 1 .. MaxHead
Empty == [data |-> [r \in Repos |-> {}], fresh |-> {}]
Idle == [phase |-> "idle", repo |-> CHOOSE r \in Repos : TRUE, copy |-> Empty, read |-> {}]

\* The newest Cap of a set of runs: runs.slice(-MAX_CI_RUNS_PER_REPO).
Newest(runs) == {n \in runs : Cardinality({m \in runs : m > n}) < Cap}

\* The version read, or the last runs of the branch.
Listed(r) == IF Whole THEN {head[r]} ELSE {n \in 1 .. head[r] : n > head[r] - Window}

\* What a repository's part becomes: the slice just read replaces the old one;
\* CI runs are merged with those of the copy, each once.
Merged(old, read) == IF Whole THEN read ELSE Newest(old \cup read)

\* The record after a save: the graph as the job built it on its copy, or the
\* repository's own runs in the record as it is now.
Replaced(now, copy, r, read) ==
  [data  |-> IF Whole THEN [copy.data EXCEPT ![r] = Merged(copy.data[r], read)]
             ELSE [now.data EXCEPT ![r] = Merged(copy.data[r], read)],
   fresh |-> now.fresh \cup {r}]

\* After its answer a save throws the cached copy away.
AfterSave == NoCopy

Init ==
  /\ head = [r \in Repos |-> 1]
  /\ stored = Empty
  /\ cached = NoCopy
  /\ job = [j \in Jobs |-> Idle]
  /\ own = Empty.data
  /\ faults = 0 /\ refreshes = 0 /\ raced = FALSE

\* A merge, or a finished CI run, on a repository's default branch.
Change(r) ==
  /\ head[r] < MaxHead
  /\ head' = [head EXCEPT ![r] = @ + 1]
  /\ UNCHANGED <<stored, cached, job, own, faults, refreshes, raced>>

\* load: from the cache, or a request, served from the record as it is now.
Load(j, r) ==
  /\ job[j].phase = "idle" /\ refreshes < MaxRefreshes
  /\ refreshes' = refreshes + 1
  /\ raced' = (raced \/ \E k \in Jobs \ {j} : job[k].phase # "idle")
  /\ job' = [job EXCEPT ![j] =
       [phase |-> IF cached = NoCopy THEN "asked" ELSE "loaded", repo |-> r, read |-> {},
        copy  |-> IF cached = NoCopy THEN stored ELSE cached]]
  /\ UNCHANGED <<head, stored, cached, own, faults>>

Answered(j) ==
  /\ job[j].phase = "asked"
  /\ cached' = job[j].copy
  /\ job' = [job EXCEPT ![j].phase = "loaded"]
  /\ UNCHANGED <<head, stored, own, faults, refreshes, raced>>

\* A load that fails counts as an empty record, which is not cached.
LoadFails(j) ==
  /\ job[j].phase = "asked" /\ faults < MaxFaults
  /\ faults' = faults + 1
  /\ job' = [job EXCEPT ![j].phase = "loaded", ![j].copy = Empty]
  /\ UNCHANGED <<head, stored, cached, own, refreshes, raced>>

\* The job ends if the repository's part is fresh, or if the host lists nothing.
Skip(j) ==
  /\ job[j].phase = "loaded"
  /\ job' = [job EXCEPT ![j] = Idle]
  /\ UNCHANGED <<head, stored, cached, own, faults, refreshes, raced>>

Read(j) ==
  /\ job[j].phase = "loaded" /\ job[j].repo \notin job[j].copy.fresh
  /\ job' = [job EXCEPT ![j].phase = "read", ![j].read = Listed(job[j].repo)]
  /\ UNCHANGED <<head, stored, cached, own, faults, refreshes, raced>>

\* The PUT, as the control plane applies it.
Put(j) ==
  LET r == job[j].repo IN
  /\ job[j].phase = "read"
  /\ stored' = Replaced(stored, job[j].copy, r, job[j].read)
  /\ own' = [own EXCEPT ![r] = Merged(@, job[j].read)]
  /\ job' = [job EXCEPT ![j].phase = "put"]
  /\ UNCHANGED <<head, cached, faults, refreshes, raced>>

Saved(j) ==
  /\ job[j].phase = "put"
  /\ cached' = AfterSave
  /\ job' = [job EXCEPT ![j] = Idle]
  /\ UNCHANGED <<head, stored, own, faults, refreshes, raced>>

\* The PUT never arrives (a repository that is not connected is refused), or its
\* answer is lost; save throws and the review carries on.
SaveFails(j) ==
  /\ job[j].phase \in {"read", "put"} /\ faults < MaxFaults
  /\ faults' = faults + 1
  /\ job' = [job EXCEPT ![j] = Idle]
  /\ UNCHANGED <<head, stored, cached, own, refreshes, raced>>

\* A minute passes, or the stale window (hours, in which every refresh ends).
CacheExpires ==
  /\ cached # NoCopy
  /\ cached' = NoCopy
  /\ UNCHANGED <<head, stored, job, own, faults, refreshes, raced>>

GoStale ==
  /\ stored.fresh # {} /\ \A j \in Jobs : job[j].phase = "idle"
  /\ stored' = [stored EXCEPT !.fresh = {}]
  /\ cached' = NoCopy
  /\ UNCHANGED <<head, job, own, faults, refreshes, raced>>

Next ==
  \/ \E r \in Repos : Change(r)
  \/ \E j \in Jobs, r \in Repos : Load(j, r)
  \/ \E j \in Jobs : Answered(j) \/ LoadFails(j) \/ Skip(j) \/ Read(j)
                     \/ Put(j) \/ Saved(j) \/ SaveFails(j)
  \/ CacheExpires
  \/ GoStale

Spec == Init /\ [][Next]_vars

-----------------------------------------------------------------------------
Copies == [data : [Repos -> SUBSET Items], fresh : SUBSET Repos]

TypeOK ==
  /\ head \in [Repos -> Items] /\ stored \in Copies /\ cached \in Copies \cup {NoCopy}
  /\ job \in [Jobs -> [phase : {"idle", "asked", "loaded", "read", "put"}, repo : Repos,
                       copy : Copies, read : SUBSET Items]]
  /\ own \in [Repos -> SUBSET Items] /\ raced \in BOOLEAN
  /\ faults \in 0 .. MaxFaults /\ refreshes \in 0 .. MaxRefreshes

\* Refreshing one repository leaves the data of every other one alone, so that
\* each repository's part is what its own refreshes made it.  The graph is
\* written back whole from a copy, so this fails when the copy could not be
\* loaded, or was read before another repository's save.
OthersSurvive == \A r \in Repos : stored.data[r] = own[r]

\* It does hold while no call failed and refreshes came one after another,
\* although a refresh may start from the cache: a save throws the copy away
\* that it has made old.
KeptInSequence == (faults = 0 /\ ~raced) => OthersSurvive

=============================================================================
