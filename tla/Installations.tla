---------------------------- MODULE Installations ----------------------------
(***************************************************************************)
(* What Cavix believes it may read: one row per installation of the        *)
(* GitHub App, written by webhooks, which the edge forwards once, late or  *)
(* never, and by page loads, which ask GitHub and replace what a           *)
(* workspace has.  A row carries the time it was last written from: to the *)
(* second in a webhook, to the millisecond in a page load.                 *)
(***************************************************************************)
EXTENDS Integers, FiniteSets

CONSTANTS
  Insts,      \* installations
  Projects,   \* repositories
  Accounts,   \* workspaces; AccountOf names the one of an installation's account
  AccountOf,
  Loads,      \* page loads that may be under way together
  MemberOf,   \* the workspace of the user behind a page load ...
  Sees,       \* ... and the installations GitHub shows that user
  NotInstalled, NoRow, \* neither a set of repositories nor a row
  MaxClock, MaxEvents  \* bounds: half seconds, and changes made at GitHub

Rows == [team : Accounts, repos : SUBSET Projects, at : Nat]

\* What the constants are.
InstallationsAssumption ==
  /\ AccountOf \in [Insts -> Accounts]
  /\ MemberOf \in [Loads -> Accounts] /\ Sees \in [Loads -> SUBSET Insts]
  /\ MaxClock \in Nat /\ MaxEvents \in Nat
  /\ (\A set \in SUBSET Projects : NotInstalled # set) /\ NoRow \notin Rows

VARIABLES
  clock,   \* half seconds
  events,  \* bound
  github,  \* what is granted: NotInstalled, or a set of repositories
  mail,    \* webhooks on their way, each may still be lost
  known,   \* the rows: NoRow, or [team, repos, at]
  page,    \* the page loads: see Page
  told     \* history: the rows a webhook wrote last

vars == <<clock, events, github, mail, known, page, told>>

(* updatedAt, compared as text: "...05Z" sorts after "...05.900Z". *)
PayloadStamp(t) == 4 * (t \div 2) + 3
IsoStamp(t) == 2 * t

Installed == {i \in Insts : github[i] # NotInstalled}
Closed == [pc |-> "closed"]

Init ==
  /\ clock = 0 /\ events = 0
  /\ github \in [Insts -> {NotInstalled, Projects}]  \* made while nobody listened
  /\ mail = {} /\ known = [i \in Insts |-> NoRow] /\ told = {}
  /\ page = [l \in Loads |-> Closed]

(***************************************************************************)
(* GitHub, and the deliveries it sends                                     *)
(***************************************************************************)
Send(i, action, list, gained, gone) ==
  mail' = mail \cup {[inst |-> i, action |-> action, repos |-> list,
                      added |-> gained, removed |-> gone, at |-> PayloadStamp(clock)]}

(* A change makes every page load under way one of the past. *)
Stale == [l \in Loads |-> IF page[l] = Closed THEN Closed ELSE [page[l] EXCEPT !.clean = FALSE]]

AtGitHub(i, grant) ==
  /\ events < MaxEvents /\ events' = events + 1
  /\ github' = [github EXCEPT ![i] = grant]
  /\ page' = Stale
  /\ UNCHANGED <<clock, known, told>>

Install(i) ==
  /\ i \notin Installed
  /\ \E set \in SUBSET Projects \ {{}} :
       AtGitHub(i, set) /\ Send(i, "created", set, {}, {})
Uninstall(i) ==
  i \in Installed /\ AtGitHub(i, NotInstalled) /\ Send(i, "deleted", {}, {}, {})
Grant(i, r) ==
  /\ i \in Installed /\ r \notin github[i]
  /\ AtGitHub(i, github[i] \cup {r}) /\ Send(i, "added", {}, {r}, {})
Revoke(i, r) ==
  /\ i \in Installed /\ r \in github[i]
  /\ AtGitHub(i, github[i] \ {r}) /\ Send(i, "removed", {}, {}, {r})
(* Suspended, renamed or new permissions: such a payload lists no repository. *)
OtherChange(i) ==
  i \in Installed /\ AtGitHub(i, github[i]) /\ Send(i, "other", {}, {}, {})

(***************************************************************************)
(* ControlPlaneSink.Apply is called once per delivery and acknowledges     *)
(* whatever comes of it; deliveries overtake each other.                   *)
(***************************************************************************)
Lose(d) ==
  /\ d \in mail /\ mail' = mail \ {d}
  /\ UNCHANGED <<clock, events, github, known, page, told>>

(* saveInstallation: an older stamp is stale. *)
\* Mutant: the last to write wins.
AcceptsAny(i, at) == TRUE

Accepts(i, at) == known[i] = NoRow \/ at >= known[i].at

(* updateInstallationRepos: one that is both added and removed is there. *)
Relisted(row, d) == [row EXCEPT !.repos = (@ \ d.removed) \cup d.added, !.at = d.at]

(* POST /api/internal/github/installation *)
Applied(d) ==
  LET i == d.inst  row == known[i]
      team == IF row = NoRow THEN AccountOf[i] ELSE row.team
  IN CASE d.action = "deleted" -> NoRow
       [] d.action \in {"added", "removed"} ->
            IF row = NoRow \/ ~Accepts(i, d.at) THEN row
            ELSE Relisted(row, d)
       [] OTHER ->
            IF ~Accepts(i, d.at) THEN row
            ELSE [team |-> team, at |-> d.at,
                  repos |-> IF d.action = "created" THEN d.repos
                            ELSE IF row = NoRow THEN {} ELSE row.repos]

Deliver(d) ==
  /\ d \in mail /\ mail' = mail \ {d}
  /\ known' = [known EXCEPT ![d.inst] = Applied(d)]
  /\ told' = IF known' = known THEN told ELSE told \cup {d.inst}
  /\ page' = Stale
  /\ UNCHANGED <<clock, events, github>>

(***************************************************************************)
(* A page load: getInstallations, then reconcileInstallations, which asks  *)
(* for the repositories of one installation after the other and drops the  *)
(* workspace's rows that were not listed.                                  *)
(***************************************************************************)
Ask(l) ==
  /\ page[l] = Closed
  /\ page' = [page EXCEPT ![l] = [pc |-> "listed", list |-> Installed \cap Sees[l], at |-> 0,
                                  todo |-> {}, got |-> NotInstalled, clean |-> TRUE]]
  /\ UNCHANGED <<clock, events, github, mail, known, told>>

Pruned(rows, l) ==
  [i \in Insts |-> IF rows[i] # NoRow /\ i \notin page[l].list THEN
                     IF rows[i].team = MemberOf[l] THEN NoRow ELSE rows[i]
                   ELSE rows[i]]

(* The answer is there: reconcile stamps the time and starts, or has only to prune. *)
Start(l) ==
  /\ page[l].pc = "listed"
  /\ IF page[l].list = {}
     THEN known' = Pruned(known, l) /\ page' = [Stale EXCEPT ![l] = Closed]
     ELSE /\ UNCHANGED known
          /\ page' = [page EXCEPT ![l].pc = "fetching", ![l].at = IsoStamp(clock),
                                  ![l].todo = page[l].list]
  /\ UNCHANGED <<clock, events, github, mail, told>>

(* getInstallationRepos answers, or fails. *)
Fetch(l, i) ==
  /\ page[l].pc = "fetching" /\ i \in page[l].todo
  /\ \/ /\ i \in Installed
        /\ page' = [page EXCEPT ![l].pc = "fetched", ![l].todo = @ \ {i},
                                ![l].got = [inst |-> i, ok |-> TRUE, repos |-> github[i]]]
     \/ page' = [page EXCEPT ![l].pc = "fetched", ![l].todo = @ \ {i}, ![l].clean = FALSE,
                             ![l].got = [inst |-> i, ok |-> FALSE, repos |-> {}]]
  /\ UNCHANGED <<clock, events, github, mail, known, told>>

(* A failed answer keeps what was known; the row still gets the new stamp. *)
Fetched(l) ==
  LET i == page[l].got.inst  row == known[i] IN
  IF ~Accepts(i, page[l].at) THEN row
  ELSE [team |-> MemberOf[l], at |-> page[l].at,
        repos |-> IF page[l].got.ok THEN page[l].got.repos
                  ELSE IF row = NoRow THEN {} ELSE row.repos]

Save(l) ==
  /\ page[l].pc = "fetched"
  /\ LET i == page[l].got.inst
         rows == [known EXCEPT ![i] = Fetched(l)]
         others == [k \in Loads |-> IF k # l /\ page[k] # Closed
                                    THEN [page[k] EXCEPT !.clean = FALSE] ELSE page[k]]
     IN /\ told' = IF rows = known THEN told ELSE told \ {i}
        /\ IF page[l].todo = {}
           THEN known' = Pruned(rows, l) /\ page' = [others EXCEPT ![l] = Closed]
           ELSE known' = rows /\ page' = [others EXCEPT ![l].pc = "fetching"]
  /\ UNCHANGED <<clock, events, github, mail>>

(* POST /api/github/disconnect forgets the workspace's rows. *)
Disconnect(t) ==
  /\ \E i \in Insts : known[i] # NoRow /\ known[i].team = t
  /\ events < MaxEvents /\ events' = events + 1
  /\ known' = [i \in Insts |-> IF known[i] = NoRow THEN NoRow
                               ELSE IF known[i].team = t THEN NoRow ELSE known[i]]
  /\ page' = Stale
  /\ UNCHANGED <<clock, github, mail, told>>

Tick ==
  /\ clock < MaxClock /\ clock' = clock + 1
  /\ UNCHANGED <<events, github, mail, known, page, told>>

Next ==
  \/ \E i \in Insts : \/ Install(i) \/ Uninstall(i) \/ OtherChange(i)
                      \/ \E r \in Projects : Grant(i, r) \/ Revoke(i, r)
  \/ \E d \in mail : Lose(d) \/ Deliver(d)
  \/ \E l \in Loads : Ask(l) \/ Start(l) \/ Save(l) \/ \E i \in Insts : Fetch(l, i)
  \/ \E t \in Accounts : Disconnect(t)
  \/ Tick

Spec == Init /\ [][Next]_vars

-----------------------------------------------------------------------------
(* Every variable has its type, and a page works on what it listed. *)
TypeOK ==
  /\ clock \in 0..MaxClock /\ events \in 0..MaxEvents /\ told \subseteq Insts
  /\ \A i \in Insts :
       /\ github[i] = NotInstalled \/ github[i] \subseteq Projects
       /\ known[i] = NoRow \/ known[i] \in Rows
  /\ \A l \in Loads : page[l] = Closed \/ page[l].todo \subseteq page[l].list

(* The installations a page shows whose rows no webhook of its own second wrote. *)
Comparable(l) ==
  {i \in Sees[l] : known[i] = NoRow \/ i \notin told \/ known[i].at <= page[l].at}

(***************************************************************************)
(* "A page load is the cheapest repair there is for a webhook that never   *)
(* arrived": when one ends that nothing disturbed, what the workspace has  *)
(* is what GitHub grants, whichever deliveries were lost, late, doubled by *)
(* an earlier page or refused before.  (A row stamped by a webhook in the  *)
(* very second of the page load refuses it as older.)                      *)
(***************************************************************************)
PageLoadRepairs ==
  [][\A l \in Loads :
       page[l] # Closed /\ page'[l] = Closed /\ page[l].clean =>
         \A i \in Comparable(l) :
           IF i \in Installed
           THEN known'[i] # NoRow /\ known'[i].repos = github[i] /\ known'[i].team = MemberOf[l]
           ELSE known[i] # NoRow /\ known[i].team = MemberOf[l] => known'[i] = NoRow]_vars

(***************************************************************************)
(* Deliveries arrive out of order and page loads take their time: whoever  *)
(* writes, a row that stays is never written from an older state than it   *)
(* was written from before.                                                *)
(***************************************************************************)
NoRowGoesBack ==
  [][\A i \in Insts : known[i] # NoRow /\ known'[i] # NoRow => known'[i].at >= known[i].at]_vars

(* Late, lost and doubled deliveries and overlapping page loads: the rows  *)
(* only move forward, and a page load nothing disturbed makes them right.  *)
RowsConverge == NoRowGoesBack /\ PageLoadRepairs
=============================================================================
