---------------------------- MODULE ControlPlane ----------------------------
(***************************************************************************)
(* Eight parts around the control plane that share no state.  Four are its *)
(* own: a workspace's limits, the bars from its decisions, the rows of the *)
(* GitHub App's installations, and a user's GitHub credential.  Four are   *)
(* what orchestrators keep of it: a workspace's model key, its settings,   *)
(* its CI history and its tokens.  Each part has a clock of its own.       *)
(***************************************************************************)
EXTENDS Workspace, Decisions, TLC

CONSTANTS
  \* installations
  Insts, Projects, Accounts, AccountOf, Loads, MemberOf, Sees, NotInstalled, NoRow, MaxClock, MaxEvents,
  \* the credential
  Visits, States, SignIns, StateTtl, MaxGens, MaxHours,
  \* the model key
  ModelKeys, Fallback, NoKey, LlmTtl, MaxAsked, MaxTravel, MaxTicks, MaxKeys,
  \* settings
  Spaces, Gates, SpaceOf, NoSpace, ReviewTtl, MaxConfigs, Wait, Attempts, MaxMinutes, MaxSwitches,
  \* CI history
  Projected, Refreshes, Whole, FetchedRuns, Cap, MaxRuns, MaxRefreshes, NoCopy,
  \* tokens
  Places, Calls, Pasted, NoSecret, Lifetime, Margin, Assumed, PastedTtl, MaxTokens, Patience, MaxSeconds, MaxPastes,
  MaxFaults   \* bound: calls that fail, of each part

VARIABLES
  part,   \* the part that moves
  clock, events, github, mail, known, page, told,
  hour, issued, granted, expired, token, renews, req, trip, cookie, ended, raced, failed, crossed,
  tick, key, hadKey, resolved, asked, used, faultAt, keyFaults, keyChanges,
  minute, knows, rows, enabled, chosen, said, configs, stage, answer, ran, readFaults, switches,
  head, stored, cached, job, alone, callFaults, refreshes, side,
  second, provider, saved, hadToken, kept, awaited, sent, pastes, tokenFaults

I == INSTANCE Installations

G == INSTANCE GitHubSession WITH Requests <- Visits, Ttl <- StateTtl, MaxNow <- MaxHours

K == INSTANCE ModelKey WITH
  Keys <- ModelKeys, MaxTime <- MaxTicks, MaxChanges <- MaxKeys,
  now <- tick, faults <- keyFaults, changes <- keyChanges

S == INSTANCE Settings WITH
  Orgs <- Spaces, Jobs <- Gates, Org <- SpaceOf, NoOrg <- NoSpace, MaxCached <- MaxConfigs, Timeout <- Wait,
  MaxTime <- MaxMinutes, MaxChanges <- MaxSwitches,
  now <- minute, faults <- readFaults, changes <- switches

H == INSTANCE OrgIndex WITH
  Repos <- Projected, Jobs <- Refreshes, Window <- FetchedRuns, MaxHead <- MaxRuns,
  own <- alone, faults <- callFaults, raced <- side

T == INSTANCE HostTokens WITH
  Keys <- Places, Requests <- Calls, MaxCached <- MaxTokens, Timeout <- Patience,
  MaxTime <- MaxSeconds, MaxChanges <- MaxPastes,
  now <- second, cache <- kept, asked <- awaited, changes <- pastes, faults <- tokenFaults

(* The constants of the parts are as their modules want them. *)
PartsAssumption ==
  /\ WorkspaceAssumption /\ DecisionsAssumption /\ I!InstallationsAssumption /\ G!GitHubSessionAssumption
  /\ K!ModelKeyAssumption /\ S!SettingsAssumption /\ H!OrgIndexAssumption /\ T!HostTokensAssumption

installationVars == <<clock, events, github, mail, known, page, told>>
sessionVars == <<hour, issued, granted, expired, token, renews, req, trip, cookie, ended, raced, failed, crossed>>
keyVars == <<tick, key, hadKey, resolved, asked, used, faultAt, keyFaults, keyChanges>>
settingsVars == <<minute, knows, rows, enabled, chosen, said, configs, stage, answer, ran, readFaults, switches>>
historyVars == <<head, stored, cached, job, alone, callFaults, refreshes, side>>
tokenVars == <<second, provider, saved, hadToken, kept, awaited, sent, pastes, tokenFaults>>
ownVars == <<vars, decisionVars, installationVars, sessionVars>>
keptVars == <<keyVars, settingsVars, historyVars, tokenVars>>
allVars == <<part, ownVars, keptVars>>

PartsInit ==
  /\ part \in {"workspace", "decisions", "installations", "session", "key", "settings", "history", "tokens"}
  /\ Init /\ DecisionsInit /\ I!Init /\ G!Init /\ K!Init /\ S!Init /\ H!Init /\ T!Init

WorkspaceStep ==
  part = "workspace" /\ Next /\ UNCHANGED <<part, decisionVars, installationVars, sessionVars, keptVars>>
DecisionsStep ==
  part = "decisions" /\ DecisionsNext /\ UNCHANGED <<part, vars, installationVars, sessionVars, keptVars>>
InstallationsStep ==
  part = "installations" /\ I!Next /\ UNCHANGED <<part, vars, decisionVars, sessionVars, keptVars>>
SessionStep ==
  part = "session" /\ G!Next /\ UNCHANGED <<part, vars, decisionVars, installationVars, keptVars>>
KeyStep == part = "key" /\ K!Next /\ UNCHANGED <<part, ownVars, settingsVars, historyVars, tokenVars>>
SettingsStep == part = "settings" /\ S!Next /\ UNCHANGED <<part, ownVars, keyVars, historyVars, tokenVars>>
HistoryStep == part = "history" /\ H!Next /\ UNCHANGED <<part, ownVars, keyVars, settingsVars, tokenVars>>
TokensStep == part = "tokens" /\ T!Next /\ UNCHANGED <<part, ownVars, keyVars, settingsVars, historyVars>>

PartsNext ==
  \/ WorkspaceStep \/ DecisionsStep \/ InstallationsStep \/ SessionStep
  \/ KeyStep \/ SettingsStep \/ HistoryStep \/ TokensStep

PartsSpec == PartsInit /\ [][PartsNext]_allVars

-----------------------------------------------------------------------------
(* Late, lost and doubled webhooks and overlapping page loads: the rows of *)
(* the installations move forward, and a page load nothing disturbed makes *)
(* them right.                                                             *)
RowsConverge == I!RowsConverge

(* Overlapping requests and sign-ins: what is stored of a user's GitHub    *)
(* credential is the newest or none, lost only to an overlap, or where it  *)
(* could not be renewed.                                                   *)
CredentialIsKept == G!CredentialIsKept

(* What orchestrators keep of a workspace, against what it was: its model  *)
(* key, its switches, its CI history and its tokens.                       *)
CopiesAreRecent == K!KeyIsRecent /\ S!SwitchIsObeyed /\ H!KeptInSequence /\ T!TokenIsGood

-----------------------------------------------------------------------------
(***************************************************************************)
(* For TLC, which explores each part by itself.                            *)
(***************************************************************************)
ASSUME PartsAssumption

(* One installation, of the account one of two users shares a workspace with. *)
OneAccount == [i \in Insts |-> "acme"]
TwoMembers == [l \in Loads |-> IF l = "l1" THEN "acme" ELSE "bob"]
SeesAll == [l \in Loads |-> Insts]
OneSpace == [j \in Gates |-> "a"]

(* The parts not chosen start in one state. *)
Start ==
  /\ PartsInit
  /\ part = "workspace" \/ (repos = <<>> /\ \A o \in Orgs : org[o].tier = "free")
  /\ part = "decisions" \/ durable = Nothing
  /\ part = "installations" \/ \A i \in Insts : github[i] = NotInstalled
  /\ part = "session" \/ renews
  /\ part = "key" \/ key = NoKey
  /\ knows = {"autoReview"}   \* an upgrade at once is the other start
  /\ part = "tokens" \/ (provider = "app" /\ saved["b"] = NoSecret)
  /\ saved["a"] = NoSecret      \* the two workspaces are alike

MCSpec == Start /\ [][PartsNext]_allVars

(* The two workers differ in nothing. *)
Workers == Permutations(Jobs) \cup Permutations(PRs)
=============================================================================
