------------------------------ MODULE Settings -------------------------------
(***************************************************************************)
(* Which automatic reviews a workspace's settings let through.  Its owner  *)
(* changes them on the control plane; a running orchestrator asks:         *)
(*                                                                         *)
(*   src/services/orchestrator/src/byok/gate.ts          read per job      *)
(*   src/services/orchestrator/src/byok/reviewConfig.ts  cached 30 s       *)
(*   src/services/orchestrator/src/workflow/reviewWorkflow.ts              *)
(*                                                                         *)
(* Two switches stand for the whole configuration.  The orchestrator waits *)
(* for an answer up to a timeout, with other jobs, the owner's changes and *)
(* a newer control plane in between: rows written before a switch existed  *)
(* lack it, and so do the answers of a control plane that is older.        *)
(***************************************************************************)
EXTENDS Integers, Sequences

CONSTANTS
  Orgs,        \* workspaces
  Jobs,        \* automatic jobs that may run at once
  Org,         \* the workspace of each
  NoOrg,
  ReviewTtl,   \* ticks a review configuration is kept      (cacheMs)
  MaxCached,   \* configurations kept                       (MAX_CACHED_ORGS)
  Timeout,     \* ticks a configuration is waited for       (timeoutMs)
  Attempts,    \* of one gate check                         (attempts)
  MaxTime,     \* bound: ticks
  MaxChanges,  \* bound: changes of settings
  MaxFaults    \* bound: requests the control plane fails

\* What the constants are.
SettingsAssumption ==
  /\ ReviewTtl \in Nat \ {0} /\ MaxCached \in Nat \ {0}
  /\ Attempts \in Nat \ {0} /\ Org \in [Jobs -> Orgs] /\ {Timeout, MaxTime, MaxChanges, MaxFaults} \subseteq Nat

VARIABLES
  now,       \* ticks
  knows,     \* the switches that the control plane's version has
  rows,      \* on the control plane: workspace -> the switches its row has
  enabled,   \* on the control plane: workspace -> its repository is switched on
  chosen,    \* history: what its owner last chose, the defaults at first
  said,      \* history: when that last said yes, or no, to a draft, or another
  configs,   \* the review configurations cached, oldest entry first
  stage,     \* where each job is
  answer,    \* the configuration under way to a job, and since when
  ran,       \* the last automatic review that was, or was not, let through
  faults, changes

vars == <<now, knows, rows, enabled, chosen, said, configs, stage, answer, ran, faults, changes>>
owners == <<knows, rows, enabled, chosen, said, changes>>
jobs == <<configs, stage, answer, ran>>

Switches == {"autoReview", "reviewDraftPRs"}

\* defaultSettings, of a version that knows these switches
Default(known) == [s \in known |-> s = "autoReview"]

\* What is missing is the default's.
Filled(row, default) ==
  [s \in DOMAIN default \cup DOMAIN row |-> IF s \in DOMAIN row THEN row[s] ELSE default[s]]

\* DEFAULT_REVIEW_CONFIG, and an answer narrowed to the orchestrator's switches
DefaultConfig == Default(Switches)
Coerce(sent) == Filled(sent, DefaultConfig)

\* Whether a configuration lets an automatic review of a draft, or another, start.
Allows(config, draft) == config["autoReview"] /\ (draft => config["reviewDraftPRs"])

\* GET .../review-config: the row, filled by getSettings.
Sent(o) == Filled(rows[o], Default(knows))

NoAnswer == [config |-> DefaultConfig, at |-> 0]
NoRun == [org |-> NoOrg, draft |-> FALSE, starts |-> FALSE, read |-> FALSE, at |-> 0]

Init ==
  /\ now = 0
  /\ knows \in {{"autoReview"}, Switches}
  /\ rows = [o \in Orgs |-> <<>>] /\ enabled = [o \in Orgs |-> TRUE]
  /\ chosen = [o \in Orgs |-> DefaultConfig]
  /\ said = [o \in Orgs |-> [draft \in BOOLEAN |-> [yes \in BOOLEAN |->
                IF yes = ~draft THEN 0 ELSE 0 - ReviewTtl - Timeout]]]
  /\ configs = <<>> /\ stage = [j \in Jobs |-> "idle"]
  /\ answer = [j \in Jobs |-> NoAnswer]
  /\ ran = NoRun
  /\ faults = 0 /\ changes = 0

-----------------------------------------------------------------------------
\* updateSettings: a patch of the switches this version knows.
Updated(o, patch) == Filled([s \in DOMAIN patch \cap knows |-> patch[s]], Sent(o))

\* What each owner's choice says now, it has said at this time.
SaidAt(time, choice) ==
  [o \in Orgs |-> [draft \in BOOLEAN |-> [yes \in BOOLEAN |->
     IF yes = Allows(choice[o], draft) THEN time ELSE said[o][draft][yes]]]]

(* The owner, on the dashboard. *)
SetSwitch(o, patch) ==
  /\ changes < MaxChanges
  /\ rows' = [rows EXCEPT ![o] = Updated(o, patch)]
  /\ changes' = changes + 1
  /\ chosen' = [chosen EXCEPT ![o] = [s \in Switches |->
                 IF s \in DOMAIN patch \cap knows THEN patch[s] ELSE chosen[o][s]]]
  /\ said' = SaidAt(now, chosen')
  /\ UNCHANGED <<now, knows, enabled, jobs, faults>>

SetEnabled(o) ==
  /\ changes < MaxChanges
  /\ enabled' = [enabled EXCEPT ![o] = ~enabled[o]]
  /\ changes' = changes + 1
  /\ UNCHANGED <<now, knows, rows, chosen, said, jobs, faults>>

\* A newer control plane loads the rows of the older one.
Upgrade ==
  /\ knows # Switches /\ knows' = Switches
  /\ UNCHANGED <<now, rows, enabled, chosen, said, changes, jobs, faults>>

Tick ==
  /\ now < MaxTime /\ now' = now + 1
  /\ \A j \in Jobs : stage[j] = "asked" => now - answer[j].at < Timeout
  /\ said' = SaidAt(now + 1, chosen)
  /\ UNCHANGED <<knows, rows, enabled, chosen, changes, jobs, faults>>

-----------------------------------------------------------------------------
(* An automatic job: the gate, then the review configuration. *)

\* Without an answer in all its attempts the gate stays shut.
Gate(j) ==
  /\ stage[j] = "idle"
  /\ \E failed \in 0..Attempts :
       /\ faults + failed <= MaxFaults /\ faults' = faults + failed
       /\ stage' = IF failed < Attempts /\ enabled[Org[j]]
                     THEN [stage EXCEPT ![j] = "gated"] ELSE stage
  /\ UNCHANGED <<now, owners, configs, answer, ran>>

Hit(o) == {i \in DOMAIN configs : configs[i].org = o /\ now - configs[i].at < ReviewTtl}

\* cache.set: an entry is renewed in place, a new one pushes out the oldest.
Stored(o, config) ==
  LET entry == [org |-> o, at |-> now, config |-> config]
      same == {i \in DOMAIN configs : configs[i].org = o}
  IN IF same # {} THEN [i \in DOMAIN configs |-> IF i \in same THEN entry ELSE configs[i]]
     ELSE Append(IF Len(configs) >= MaxCached THEN Tail(configs) ELSE configs, entry)

\* The job goes on if the configuration it got lets it; a draft that cannot be
\* told from another counts as one that is not; read tells whether the control
\* plane was heard.
Decided(j, config, read) ==
  /\ stage' = [stage EXCEPT ![j] = "idle"]
  /\ answer' = [answer EXCEPT ![j] = NoAnswer]
  /\ \E draft \in BOOLEAN :
       ran' = [org |-> Org[j], draft |-> draft, starts |-> Allows(config, draft), read |-> read, at |-> now]

ConfigHit(j) ==
  /\ stage[j] = "gated" /\ Hit(Org[j]) # {}
  /\ \E i \in Hit(Org[j]) : Decided(j, configs[i].config, TRUE)
  /\ UNCHANGED <<now, owners, configs, faults>>

\* getSettings writes down what it filled in.
AskConfig(j) ==
  /\ stage[j] = "gated" /\ Hit(Org[j]) = {}
  /\ stage' = [stage EXCEPT ![j] = "asked"]
  /\ answer' = [answer EXCEPT ![j] = [config |-> Coerce(Sent(Org[j])), at |-> now]]
  /\ rows' = [rows EXCEPT ![Org[j]] = Sent(Org[j])]
  /\ UNCHANGED <<now, knows, enabled, chosen, said, changes, configs, ran, faults>>

ConfigArrives(j) ==
  /\ stage[j] = "asked"
  /\ Decided(j, answer[j].config, TRUE) /\ configs' = Stored(Org[j], answer[j].config)
  /\ UNCHANGED <<now, owners, faults>>

\* No answer, or none in time: the defaults, for this review only.
ConfigFails(j) ==
  /\ stage[j] = "asked"
  /\ faults < MaxFaults /\ faults' = faults + 1
  /\ Decided(j, DefaultConfig, FALSE)
  /\ UNCHANGED <<now, owners, configs>>

Next ==
  \/ Tick \/ Upgrade
  \/ \E o \in Orgs : SetEnabled(o) \/ \E s \in Switches, on \in BOOLEAN : SetSwitch(o, [t \in {s} |-> on])
  \/ \E j \in Jobs :
       \/ Gate(j) \/ ConfigHit(j)
       \/ AskConfig(j) \/ ConfigArrives(j) \/ ConfigFails(j)

Spec == Init /\ [][Next]_vars

-----------------------------------------------------------------------------
\* Every variable has its type.
TypeOK ==
  /\ now \in 0..MaxTime /\ faults \in 0..MaxFaults /\ changes \in 0..MaxChanges
  /\ knows \subseteq Switches /\ \A o \in Orgs : rows[o] \in UNION {[d -> BOOLEAN] : d \in SUBSET Switches}
  /\ enabled \in [Orgs -> BOOLEAN]
  /\ Len(configs) <= MaxCached /\ stage \in [Jobs -> {"idle", "gated", "asked"}]
  /\ \A j \in Jobs : answer[j] \in [config : [Switches -> BOOLEAN], at : 0..MaxTime]

\* The owner's switches are obeyed: a review, of a draft or another, starts by
\* itself or does not as the owner had chosen within the cache's time and that of
\* the answer, unless this very job could not read the settings; a switch that
\* the row or the control plane does not have yet turns nothing off, or on.
SwitchIsObeyed ==
  ran # NoRun => ~ran.read \/ said[ran.org][ran.draft][ran.starts] > ran.at - ReviewTtl - Timeout
=============================================================================
