# Cavix: its reviews in TLA+

Cavix reviews pull requests.  A webhook of a code host reaches the **edge** (Go),
becomes a job on a Redis stream, is handed by the **bridge** to a workflow
engine (BullMQ or in-process), and is run by the **orchestrator**
(`makeReviewHandler`, `runReview`).  The orchestrator asks the **control plane**
for the gate, the settings, the pull request's review slot and its finding ledger,
reads the diff and its surroundings, lets models review it, judges and tries what
they claim, and writes the result on the pull request.  The control plane keeps
everything in memory and saves it whole to one row of Postgres.

This directory models how a webhook becomes a job, which of several reviews of
one pull request may post, what a review reads, how its findings are judged, what
it writes and finds written, what one review remembers of those before it, and
what the control plane promises to the orchestrators and the hosts.

## The system

State, operations, interactions and hard behaviours of each part.  "Correct"
names what the part owes the others.

| part | state | operations | interacts with | hard | correct when |
|---|---|---|---|---|---|
| webhook normalisation (`services/edge/internal/webhook`) | none | event to job, mention, key | hosts | hosts describe different changes by one event, deliver again | each head of an open pull request has its job |
| edge (`services/edge`) | seen delivery keys, one Redis connection | deduplicate, enqueue, forward installation events | host retries on 5xx; Redis; control plane | retry after a failed enqueue, a reply that arrives after its timeout | an accepted event becomes at least one job |
| bridge (`orchestrator/src/bridge`) | consumer group's position and pending entries | read, parse, submit, acknowledge, drop poison | Redis stream, engine | crash between submit and acknowledge, failed submit | no entry is acknowledged unserved |
| engine (`workflow/bullmq.ts`, `inline.ts`) | job ids, attempts | submit (deduplicated by id), retry, retire | bridge, handler | stalled jobs, retained failed ids | attempts are bounded, one job per id |
| handler (`reviewWorkflow.ts`) | the clients in its closure, check row, heartbeat timer, current run | commands, self-heal, claim, post, finish, fail | every other part | concurrent jobs, early returns, exceptions, crashes | one review posts, through the client of its host; the slot is released |
| review slot (`review-session/src/run.ts`, `store.ts`) | one row per pull request | claim, touch, begin posting, finish, fail by commit | handler over HTTP | late calls of old runs, stale holders, restart | it is a lease |
| ledger (`review-session/src/ledger.ts`, `store.ts`) | entries, reviews used, last base | reconcile, dismiss all, trim, save | handler over HTTP | silence, renames, rebases, lost saves, overlapping writers | a finding is closed only for a reason |
| scope (`review-session/src/scope.ts`, `pathFilter.ts`) | the recorded head | narrow a re-review | hosts' compare | merges, changed filters, a save that failed | nothing stays unread |
| commands (`workflow/commands.ts`) | the pause, in a mark on a comment | pause, resume, resolve, help | hosts | several workers, refused calls | the mark is what was asked |
| context, code index (`packages/context`, `analyzer`) | an index with snapshots | rules, packing, callers | repository | stale snapshots, budgets | callers are not missed |
| pipeline (`packages/*`, `reviewer`, `verify`, `policy`, `deterministic`, `sandbox`) | none across reviews | find, verify, adjudicate, rank, apply policy, prove | models, sandbox | stages that fail, merge and hold back | no finding vanishes unaccounted |
| numbers shown (`packages/analytics`, `telemetry`, `store.ts`) | none | trends, counts, rates, hours, seats | the recorded reviews and runs | rounding, empty windows, small samples | no number claims what was not recorded |
| hosts' tokens (`appAuth.ts`, `tokens.ts`) | minted or pasted tokens, cached, answers awaited | send with a request, mint, ask, keep | code hosts, control plane | tokens that run out, answers that cross a change | no request carries a token that has run out or was long replaced |
| hosts and poster (`github`, `gitlab`, `bitbucket`, `azure`, `poster`) | the page: reviews, comments, rows, description | fetch, post, keep, remove | code hosts, the author | refused calls, limits, edits in between | one comment each, nothing silent |
| organisation (`orggraph`, `telemetry`) | contract graph, CI history, cached | refresh, load, save | control plane | whole writes from old copies | each repository keeps its part |
| keys and settings (`byok`, `packages/gateway`) | caches | resolve, ask | control plane | late answers | copies are recent |
| control plane (`services/control-plane`) | workspaces, limits, ledgers, runs, decisions, installations, tokens, snapshot | HTTP routes, OAuth, page loads, snapshot and restore | edge, orchestrator, dashboard, GitHub | concurrent jobs, late webhooks, restarts, a database that sleeps | gate and record agree, accepted writes last |

`PROJECT.json` lists all parts, the unmodelled ones with the reason, and the
hazards of the code at their lines with the properties that cover them.

## Modules

### The slot and the jobs

**ReviewWorkflow** composes the slot with the jobs that compete for it.  The slot is
`run.ts` and the store's operations on a run: `DecideClaim` and one operator per
store call that gives the row after it.  `quiet` is the age of `updatedAt` in
heartbeat periods.  `RunStatus` holds the statuses this code path stores; a
superseded run is not marked but replaced, its id gone from the row.  `pc[j]` is a
place between two HTTP calls of `runReview`:

| place | code |
|---|---|
| `queued` | the engine holds the job |
| `starting` | `ref` is resolved, the claim is next (step 0a) |
| `reviewing` | claimed, timer armed, check row open; diff, model, ledger fold |
| `cleared` | `stillMine` said yes (step 3z) |
| `posting` | `beginPosting` was called, its answer dropped |
| `posted` | review and check run are on the page, `finish` is next |
| `failing` | thrown; the handler's catch is next |
| `reviewed`, `discarded`, `duplicate`, `wait`, `early`, `failed`, `dropped` | the ways a job ends |

`Call` is the client of `report/runs.ts`: an answered call, or one that timed
out after it was or was not applied, after which the client proceeds.
`ResolveHead` gives a command the head of the moment; a webhook job has its own.
`Reopen` is a second job for a head (the edge's key contains the action).
`Heal` calls `runReview` again in the same attempt, under the first call's claim.
`Tick` is a heartbeat period: every armed timer sends its touch.  `Crash` loses a
process and its timers; the queue redelivers the job or does not.
`RestartControlPlane` forgets the row, which no snapshot holds.

**ReviewLease** says what the slot promises apart from how: a holder can be
replaced until it seals the lease, a sealed lease can be taken only after it
has lapsed, and who lost it never has it again.  `ReviewWorkflow` maps its row to a
lease (`Lease`); `SlotIsALease` is `ReviewLease`'s specification under that mapping.

### The ledger

**PrLedger** is `ledger.ts`: `Reconcile` with `Migrate` (renames), `Silent` (what
silence means for an open entry), `Stamp`, `Fresh`, `Trim`.  A digest is modelled
as the value it digests: file digests as the base and the file's hunks, region
digests as base, start of the hunk and its text.  So two digests are equal
exactly when what was hashed is equal, and a rebase changes them all.
`coerceLedger` is the identity on the ledgers the code itself writes.

**ReviewMemory** composes the ledger with its writers: the author who edits,
renames and rebases (`touched` is a history variable), reviews that read the diff, fold,
post and save, and `resolve`, which dismisses what is open.  What the model finds
is any set of findings.  `Verdict` is the check run's conclusion for an owner who
blocks on every severity.  A webhook review carries the base of its own delivery,
which may be older than the diff it fetches; a command carries none.

### From the host to the engine

**Triggers** is what the four hosts' webhooks become at the edge: which events
are reviews or commands, how a mention is read (`IsMentioned`), and the key by which a
delivery is recognised.

**Ingress** is the path of a delivery to the engine.  At the edge, a request that got past
the deduplication window is at `enqueue` (waits for the producer's mutex), then `sent`
(waits for a reply).  `wire` and `replies` are the two directions of the one connection; a
reply carries no request, so a request takes the first there is.  `broken` is the buffered
writer's error, which nothing clears but `RestartEdge`.

On the orchestrator's side there are the consumer group (`delivered`, `pending`), the
bridges, each with the rest of its batch and whether its connection is open, and the queue's
jobs by id.  A bridge's `submit` and `ack` are the two awaits of the loop in `pumpOnce`.  An
engine job ends by being removed or, failed, by being kept.

**Handler** is how the engine's jobs meet the code hosts' clients: each process has one
handler, whose closure holds the default client (`github`) and the `Configured` others.
`Start` looks up a job's client there and leaves it at `deps.github`; `Throw` and `Restart`
give the job back to the queue, `Drop` does not.  From there on a job is one of
`ReviewWorkflow`.

### What a review reads

**ReviewScope**: path filters, the narrowed re-review of `scopeFor` and the head it
records.  A commit is a map from files to versions, so "read" is "that version was read".
**CodeIndex**: the call graph file by file, its snapshots, and the blast radius with
its cut-offs.  **OrgImpact**: contracts and calls of other repositories, and which a
changed line reaches.  **Context**: the team's rules, globs, and the packing under a
budget.

### How findings are judged

**Findings** is the way of a finding through `runReview`: agents, critic, adjudicator
(`ClusterFindings`, `MergeCluster`, `Rank`), one-model fallback, contract graph, CI
history, pre-merge rules, and the sandbox with its retention proof.  Each stage may
fail.  `gone` records who took a finding out.  **Calibrate** is how accepts and
rejects of a team become a confidence bar.  **Reports** is what recorded histories are
made to say: the trend and the warning of a pipeline, and the numbers a workspace and
the founders are shown of the reviews (`stats`, `analytics`, `listOrgsAdmin`,
`platformStats`), in the code's rounding.

### What a review writes

**CodeHost** is a pull request's page and **GitHubHost**, **GitLabHost**, **BitbucketHost**,
**BitbucketServerHost**, **AzureHost** are the five clients: the same operators, each taking
the page and what the host refuses in that call.  **Posting** composes them with the second
half of `runReview`, `reconcileInlineComments` and `resolve`: one step is one call to the
host.  **PullDescription** is the splice of the summary into the description with the author
editing beside it.  **Commands** is what the handler does before a review: the gate, who may
command, and the pause, kept in a mark on a comment.  **Poster** is what one review says and
where (`BuildReviewSubmission`, `RenderReviewComment`, `BuildCheckOutput`), text being a
record of what it tells and its length; a badge is what it claims and in which colour.
**Differ** is Myers' differ, the unified diff, its parser, and the lines a comment may be
put on.

### The control plane and the copies of what it keeps

**Workspace**: tier, trial, limits, the gate, the recorded reviews and the ledgers'
eviction.  **Decisions**: what a team decided, and the cached bars.  **Installations**:
installation rows written by webhooks and page loads.  **GitHubSession**: OAuth round
trips and the rotation of a user's token.  **Persistence**: boot, recovery, autosave,
shutdown and the snapshot row.  The orchestrators' copies: **ModelKey** (the gateway's
cache of a workspace's key), **Settings** (the gate, and review settings that are cached, and
filled in where a row or an older control plane lacks one), **HostTokens** (the tokens of the
hosts' clients, minted for an installation or pasted by an owner) and
**OrgIndex** (the graph, written back whole when `Whole`, and the CI history, written part by part).

### For TLC

`ReviewWorkflow`, `Handler`, `Ingress`, `OrgIndex` and `ReviewMemory` are checked as they
are.  `ControlPlane`, `MCRecovery`, `MCPosting` and `MCReview` explore parts that share no
state (in `MCPosting`, no state but the host), one after the other in one run: the part is
chosen at the start and the others stay in one state.  **ControlPlane** extends `Workspace`
and `Decisions` and composes them with six instances; its `PartsSpec` holds for any
constants, and `MCSpec`, which the run checks, is `PartsSpec` with the values the end of the
module gives.  `MCRecovery` extends `Persistence`, `MCPosting` extends `Posting`, and
`MCReview` extends `Triggers` and `ReviewScope`; the other parts are instances.  In
`MCReview`, parts that are functions get their input in one step (or, for histories, grow it
element by element), and their property compares the function with a definition written
another way: the longest common subsequence for the differ, all bars there could be for the
calibration, all call chains for the blast radius.  An instanced module states what its
constants are as `...Assumption`; the module that composes them assumes it of the values it
gives.

## Runs

Each property has a mutant of the code's definition that breaks it
(`PROJECT.json`).  Distinct states in brackets.

| run | instance | shows |
|---|---|---|
| `webhooks` (1.6 M) | 3 webhook jobs (symmetric), 3 heads, 2 attempts, no lost calls | `NoReviewLost`: coalescing, superseding and standing down leave a review between them; `NoResurrection`: no late call brings a run back |
| `faults` (2.1 M) | 1 webhook, 1 command, self-heal, 2 lost calls, a crash, a restart | `SlotIsALease`, `LiveHolderIsHeard`, `PostingNotTaken`, `RowIsClosed`, `TypeOK` |
| `newest_head` | 2 webhooks | violation: see below |
| `memory` (2.2 M) | 1 file with 2 hunks of which one has a name, 2 defects, room for 2 entries, 2 author steps, 2 posts, 1 lost call, resolves | `OpenOnce`, `UsedOnlyIfPosted`, `NeverClearedBySilence`, `RevertedOnlyIfGone`, `NothingForgotten`, `GreenMeansSettled` |
| `ingress` (363 k) | 2 events of which one is poison, each delivered twice, 2 faults of the edge, 1 restart, 1 bridge with batches of 2 and 1 fault, fair | `OneJobPerEvent`, `AckedIsTaken`, `QueuedIsOnStream`, `EveryEntryIsTaken` |
| `lost_on_retry` | 1 event, 1 failed enqueue | violation: see below |
| `recovery` (144 k) | the slot as in `faults` without self-heal and restart, fair; and the store: 3 lives of the process, 3 writes, 2 recovery attempts, 2 outages, 1 lost answer, fair | `SlotComesFree`, `SkippedMeansStored`, `AcceptedIsKept`, `EventuallySaved` |
| `routing` | 2 processes, 3 jobs, each on the default host, another with a client, or one without | violation: see below |
| `control_plane` (1.07 M) | eight parts, see below | `LimitsHold`, `OldestLedgerGoes`, `BarsFollowDecisions`, `RowsConverge`, `CredentialIsKept`, `CopiesAreRecent` |
| `others_survive` | 2 repositories, 2 jobs, 1 failed load | violation: see below |
| `posting` (1.36 M) | 5 hosts, 2 runs over 2 heads with 2 findings, 1 refused call, a resolve on GitHub; the description with 3 edits; the pause with 2 workers (symmetric), 3 jobs | `OneCommentEach`, `RepliesSurvive`, `GreenOnlyIfAsked`, `AuthorTextKept`, `MarkIsWhatWasAsked` |
| `review` (1.05 M) | twelve parts, see below | `FindingsAccountedFor`, `NothingUnread`, `NothingIsMissed`, `ReachIsComplete`, `LinesAreTrue`, `PageIsComplete`, `ContextIsSound`, `LearnedIsHonest` |

Some properties are conjunctions that belong together:

- `LimitsHold`: a posted review is refused by the record only if it was outrun
  (`DroppedOnlyIfOutrun`), the spend of a day - the reviews posted in it, but for those not
  yet recorded and those whose record was lost or refused - stays within the highest limit
  there was (`SpendIsBounded`), and a pull request within the allowance its gate saw, but for
  the reviews that gate could not know of: those counted after it answered and before its job
  took the slot, and those never counted, since the ledger could not be read or saved or a
  resolve put an older count back (`AllowanceHolds`).
- `OldestLedgerGoes`: ledgers are stamped when a review folds or a resolve dismisses, and
  saved later and in any order.  One that is forgotten, be it the one just saved, was stamped
  no later than any that stays, and as many stay as may.
- `NothingForgotten`: what was open stays on the record, open or closed for a reason, and only
  what is closed may leave it for want of room.
- `RowsConverge`: an installation row is never written from an older state
  (`NoRowGoesBack`), and an undisturbed page load makes it right (`PageLoadRepairs`).
- `CredentialIsKept`: while the authorization stands, a credential is lost only to a user who
  disconnects, to its age (when it cannot be renewed, or under a page's hands), or to a renewal that
  overlapped with another or with a sign-in, or that failed, GitHub's word or not; what is
  stored is the newest pair or none; and an installation ends once.
- `CopiesAreRecent`: a model call uses a key the workspace had within the cache's
  time (`KeyIsRecent`), an automatic review starts, or does not, as the owner had chosen that
  recently (`SwitchIsObeyed`), refreshes in sequence keep each repository's part
  (`KeptInSequence`), and a request's token has not run out, or was the workspace's that
  recently (`TokenIsGood`).
- `FindingsAccountedFor`: what was raised is found, no less severe, or left with a reason; a
  serious claim is never dropped untried, neither for want of confidence nor because the
  workspace trusts its kind (`SeriousIsTried` says what the others may be dropped for); and
  "proven" retention leaves no sandbox.
- `ReachIsComplete`: an index kept by increments is the one built at once, its reach is
  exactly the callers within depth, and every caller in another repository is named.
- `LinesAreTrue`: the edits are exact and the fewest, and commentable lines are the added ones.
- `PageIsComplete`: every finding, earlier one and unread file is told, by name or, beyond
  the rows of a list, by number, the worst first; the check row counts what was not read
  (`UnreadIsTold`); the body fits, comments are on the diff, nothing open is called clean, and the
  badges say what the review did (`BadgesAreTrue`).  The sentence under the check row's table
  and its title are not vouched for: see the departures below.
- `ContextIsSound`: the diff is always read, the budget binds the rest, what was left out is
  counted and would not have fitted; and a rule is given, with the team's own words, exactly when
  it is for the whole repository or for a file the change reaches, and no later file took
  its name.
- `LearnedIsHonest`: a raised bar hides what it claims and is the lowest that
  does, the margin being the difference of two binary floats as in the code; CI warnings rest on successful runs; and of the numbers shown, two ways of counting the
  same reviews agree, a rate lies between those it is made of and its trend has the direction
  of its halves, hours saved never grow by a rejection nor shrink by an acceptance, and
  trials, plans and seats of the workspaces add up.

Bounds of the slot.  Three jobs are enough for an old run, its successor and a third
that meets both; the slot is one row, so what a fourth does to it one of three does.
`StaleAfter = 1` (6 in the code) lets a row go stale within two lost beats, and
`MaxLost = 2` lets it.  `MaxBeats = 2` lets a timer outlive an early return and
stop.  Of the ledger: two places are one hunk above another; two author steps are
any two of an edit, a rename and a rebase; two posts are the review that opens a finding and
the one that must not lose it; two defects at two places are up to four findings, and with
`MaxEntries = 2` `trim` has to choose between open entries and closed ones.  The ledger's
writers do not overlap there (`Overlap = FALSE`): see the hazards.  In `ingress`,
two requests are what it takes to mix up replies, two deliveries a retry, and a batch
of two (16 in the code) has an entry behind the poison one; a second bridge only
splits the stream with the first.  In `recovery`, two saves can be in flight only
from one process (a timer's and the last), and three lives let a recovery meet the
row of a life before the last.

Parts of `control_plane`: two workers and @PRS@ of one workspace, a daily limit
of one or two, three reviews, and one disturbance (a change by a founder, a ledger call that
fails, or a typed resolve), room for @ROOM@, so that a save has to choose between what is
stored and what it brings, in an order that is not that of the saves; two teams, two
findings, a window of one day out of three; one installation, two dashboards of which one
shares the account, two events; two overlapping requests whose renewals may fail, an
installation and a sign-in, three token generations; two keys, two reads, a time
to live of two; one workspace with two gates and a cache of one; two repositories and two refreshing
jobs; two installations or workspaces, two requests, a cache of one, and one change of a token.
Each is the least in which two actors disagree and a third step shows it.  `Workspace` takes
from the rest of the system that one review at a time holds a pull request's slot (the lease
is `ReviewWorkflow`'s matter), and that a save whose answer was lost has landed or never
will.

Parts of `review`: up to three changed files of which the agents are given two and the host may
refuse one, the answers of two agents in four combinations, failing and silent ones among them; two commits after the first and two reviews of two
files; an index of three files, a commit and a snapshot; three events on each host,
delivered again in any order; versions of up to three lines, two special ones; up to three
findings on four lines, two earlier ones, two files not read, lists of one row and a body of 24
lines; contracts of five lines and
two calls; rules and packing with sizes around the budget, a rule file with a convention's name and a
graph that knows nothing among them; six decisions with confidences at the edge of the margin; six CI runs; three
reviews of two repositories at the edges of a window of two days and before it, each with
one of four sets of findings; three workspaces, one with a trial that ends around the edges
of what counts as soon.

Symmetry is used where the workers, jobs or pull requests differ in nothing but their
name and the run has no liveness property.  `CHECK_DEADLOCK FALSE` stands where the bounded
environment stops: the author, the host, the owner, or a function that got its input.

Every module with variables states its types (`TypeOK`, `EdgeTypeOK`; `Findings`
and `Triggers` have none).  `faults` checks that of `ReviewWorkflow`; it is proved, and so are
those of `Ingress` and `Persistence`, as parts of the inductive invariants.  The
others hold in the instances of the other runs.

### Where the code departs from its words

Checked as violations:

- `newest_head`: a job that is told to wait ends, although a wait "should be
  retried once the current post finishes"; the newest head stays without a review.
- `lost_on_retry`: the key of a delivery is recorded before the job is enqueued, so the
  retry that a failed enqueue asks for is answered as a duplicate.
- `routing`, a bug of the code: the handler assigns its job's client to `deps.github` of its own closure
  (`reviewWorkflow.ts:1835`), and `main.ts:372-449` puts the default client nowhere
  else.  After the first job of another host, the process drops every job of the default one until
  it is restarted, although that client is "the one every job uses unless
  `platforms` names another for it" (`reviewWorkflow.ts:105`).  The test that
  goes through all hosts (`platformRouting.test.ts:149`) serves GitHub first.
- `others_survive`: a refresh writes the whole organisation graph from the copy it
  loaded, or from nothing when the load failed, although "every other repository's survives".

Present in the models, and excused by name in a property or a hazard's note rather
than given a run of their own:

- A run superseded between `stillMine` and `beginPosting` posts, as the second
  answer is dropped (`reviewWorkflow.ts:1131`).
- The catch releases by the handler's commit: empty for a command, so its claim
  stays until stale; and shared with another run of the same commit (`store.ts:1304`).
- A region's digest holds the hunk's start line, so growth above it closes an
  untouched finding (`ledger.ts:252`).
- Pending entries of the stream are never read again (`redisSource.ts:59`).
- `resolve` and a review overwrite each other's ledger (`reviewWorkflow.ts:1500`).
- Of two requests that renew a token at once, the loser clears the winner's
  (`server.ts:1741`); a sign-in can be overwritten by a renewal's late answer; any failure of a
  renewal, GitHub's timeout or a missing configuration included, clears the credential
  (`server.ts:1736-1750`), where the comments speak of a refresh token that is spent
  (`github.ts:266-275`, `server.ts:1748`); and a sign-in completes when its pending record is
  gone, as long as the cookie agrees (`server.ts:472-478`).
- A review is not counted in its pull request's allowance when the ledger could not be read or
  saved (`report/ledger.ts:112-135`, `reviewWorkflow.ts:1081`, `1359`, `server.ts:993`).
- The ledger that `trimLedgers` evicts may be the one just saved, if its review took longer than
  those of all others there is room for (`store.ts:899-915`).
- A learned "never verify" makes the sandbox's gate drop a finding of a confidence from 50
  to 79 that it would have tried, a security finding that was merged into such a kind included,
  although a policy "cannot suppress anything" (`verifier.ts:59-61`).
- A pre-merge rule passes over a part of the change nobody could read (`sources.ts:37-44`),
  although "a check that scanned half a change and reported pass is a silent lie"
  (`reviewWorkflow.ts:871-874`).
- A verification that rejects in the middle leaves a sandbox its retention proof does not know.
- With nothing to raise, the check row says that every changed line was read, beside the
  count of the files that were not (`poster.ts:518-520`), and its title is "no issues" also
  when the record of earlier reviews is not known (`poster.ts:380-387`), although a review never
  claims coverage it lacks (`poster.ts:351-356`, `1716-1719`, `unified.ts:31-36`).
- A convention file takes the place of a rule file of the same name (`rules.ts:107-121`),
  although "a `.cavix/rules` entry wins" (`rules.ts:104-106`, and by its title the test
  `packages/context/test/rules.test.ts:60`, which has no two files of one name).
- Rules for a path are chosen by the files the graph relates to the change, when it knows any: a
  rule for a changed file outside the graph is then not given (`assembler.ts:86`).
- Confidence bars do not age out of the cache with the decisions they came from
  (`store.ts:1075`).
- When none of an organisation's rules could be checked, the Policy badge is green and
  reads "0 of n passed" (`poster.ts:1194`), while the row below it asks for attention because
  nothing was verified (`poster.ts:1095`).
- A line that looks like a diff header once it is marked moves the lines after it (`diff.ts:118`).
- A forced push back to an earlier version, or a filter that lets a file in again,
  leaves a narrowed re-review with a file unread (`scope.ts:106`).

## Fairness

`MCRecovery` takes the fairness of its two parts (`FairStart`); a part that was not chosen
stays where none of its fair actions is enabled, and owes nothing.  `Fairness` of
`ReviewWorkflow` gives every job weak fairness, and the clock.  A queue hands out its jobs
and an async function runs to its end or throws (each HTTP call has a timeout), and
`setInterval` fires; that is what the code's scheduling gives.  No push, command, lost call,
crash or restart is fair.  `Tick` waits while a working job's timer has one beat left: it is
the assumption behind `MAX_HEARTBEATS`, that a review is shorter than two hours.

In `Ingress` the edge's requests, Redis and each bridge's loop are weakly fair;
deliveries, restarts, faults and the engine's ends of jobs are not.  A bridge whose connection
closed can do nothing until it is restarted, so nothing is promised after a bridge fault.

In `Persistence` the autosave timer, the end of a query (answered or failed) and
the database's return from sleep are weakly fair; boots, writes, outages, stops and crashes are not.
`EventuallySaved` is about a process that goes on serving.

## Proofs

All theorems are for every value of the constants that the modules' assumptions allow, that
is, for any sets of jobs, heads, files, findings, bridges, workspaces and the like, any bounds,
windows and limits.  The assumptions say that bounds are numbers and that windows are not
empty where the code's are not; that values which stand for "none" are none of the real
ones (`NoRow`, `NotInstalled`, `NoKey`); and, for the description, that no piece of the
author's text is one of Cavix's marks, which are HTML comments with its name.  A theorem of
a component that a run takes as a part of several is about that component's own
specification, but for the copies, the credential and the rows, which are proved of
`PartsSpec`, and for the page, where `PullIsKept` says it of the composition too.

| module | theorems | inductive invariant |
|---|---|---|
| `ReviewWorkflow_proof` | `TypeCorrect`, `LostSlotsStayLost`, `LiveHoldersAreHeard`, `PostingIsNotTaken`, `RowsAreClosed`, `SomeReviewLands`, `SlotIsALeaseAlways` | `TypeInv`, `HolderInv`, `RowInv`, `ReviewInv`, `LeaseInv` |
| `Persistence_proof` | `StoreTypes`, `SkippedIsStored`, `AcceptedIsKeptAlways` | `StoreInv` |
| `Ingress_proof` | `OneJob`, `NoneLost`, `QueuedIsThere` | `EdgeInv`, `BridgeInv`, `IngressInv` |
| `ReviewMemory_proof` | `PostedIsUsed`; `OpenedOnce`, `OpenIsKept`, `GreenIsEarned`, `SilenceClearsNothing`, `RevertedIsGone` | `UsedInv`; `MemoryInv` |
| `ControlPlane_proof` | `CopiesStayRecent` (of `KeyStaysRecent`, `SwitchStaysObeyed`, `HistoryStaysInSequence`, `TokensAreGood`), `CredentialsAreKept`, `RowsAlwaysConverge`, `BarsAlwaysFollow`, `LimitsAlwaysHold`, `OnlyTheOldestGoes` | `KeyInv`, `SettingsInv`, `HistoryInv`, `TokensInv`; `SessionInv`; `RowsInv`; `BarsInv`; `WorkspaceInv` |
| `Posting_proof` | `OneCommentForEach`, `GreenIsAsked`, `ThreadsSurvive` | `OneInv` with `CountInv`; `GreenInv`; `ReplyInv` |
| `Page_proof` | `PauseIsKept`, `AuthorIsKept`, `PullIsKept` | `PauseInv`; `DescriptionInv` |
| `Review_proof` | `NothingStaysUnread`, `NothingStaysMissed`, `ProvenIsGone` | `ScopeInv`; `TriggersInv`; `ProofInv` |

### The slot

- `TypeInv`.  `TypeOK` is not inductive: that a failing job stays within its attempts needs that
  a job in progress has one left (`AttemptLeft`), and that lost beats can be counted needs
  finitely many timers.  Lemmas give the type of the row after every store operation.
- `HolderInv` adds that the run in the row was made by its job, and that the row of a
  working holder has its timer armed and is no older than the calls lost: one beat is sent
  per period, and a beat that does not reset the row is a lost call.  From it
  `LiveHoldersAreHeard`, and with it the two action properties `LostSlotsStayLost` and
  `PostingIsNotTaken`.
- `RowInv`: a job at any place from which a run has concluded its row has no open one.
- `ReviewInv`: an active row is held by a job at work for that job's commit, and while a head
  exists some job can still post, has posted, or excuses it (`Hope`).  `SomeReviewLands` assumes
  `Faultless`: no lost calls, crashes, restarts, self-heal or commands.  Each of them is needed:
  `Heal`, say, can be refused by its own claim and end the job.
- `LeaseInv` is `TypeInv` and that an active row is held by a run, not by the mark of an empty
  row (`RunHolds`).  The refinement goes by what a step does to the row: one lemma for the
  store's operations on a run (each is `Report`, `Seal`, `Leave` or nothing), one for a claim
  (`Take` or `Pass`; that the newcomer is new is that run numbers only grow), one for a tick
  (`Report` or `Lapse`), and a restart is `Leave`.

### The store

`StoreInv`: whatever is in a copy was accepted or is the seed; a process that does not serve
has nothing anybody would miss and saves nothing; the store of a process that serves holds the
row and the snapshot in flight, which holds the row as well (`RowIsOlder`); and what the
timer last saved is in the store (`LastIsOlder`).  The order of row, snapshot and store is what
makes a late save harmless and a skipped one sound.

### The way in

`EdgeInv`: a request past the window is in it, at most one is on the wire, and one that
waits is owed a reply, its own when no other is owed (`Owed`); hence `QueuedIsThere` on a
connection in step.  `BridgeInv`: batches hold what was delivered, in order, and an entry at its
acknowledgement was submitted or is poison; hence `NoneLost`.  `IngressInv` counts: of an event,
entries on the stream and the wire and a request that waits are no more than the windows the edge
had for it, no entry waits in two places, and jobs are no more than entries tried; hence `OneJob`.

### The ledger

`UsedInv` says that no copy of the ledger, saved, read or about to be saved, counts more
reviews than are on the page, and that is kept with any number of writers.  The other five
theorems assume `~Overlap`, one writer at a time: with two, a later write erases an earlier
one and the properties are false (see the hazard at `reviewWorkflow.ts:1500`).  `MemoryInv`
says of the ledger, and of what a review is about to save, that it is a record of the pull request
(`Recorded`): no finding is open twice, and the digests of an open entry are those of the file and
the hunk as they were at its base, unless they were touched since it was last seen.  Lemmas say
what `Reconcile`, `Migrate`, `Silent`, `Stamp` and `Trim` keep, find and drop.

### Workspaces and bars

`WorkspaceInv`: every post is recorded, still to be reported, or never will be
(`Accounted`); the place the gate found for a review is free until another takes it or a
limit moves (`RoomLeft`); one job at a time holds a pull request (`SpentOK`).  `Sure` is what was
spent of a pull request's allowance without what was never counted; the ledger says no less,
but for a review that is posted and not yet saved (`ByLedger`), and every job has room for
its own review until it posts, in the allowance its gate saw and the reviews counted since
(`Within`).  Forgetting, failing and overwriting only ever take from `Sure`.  `OnlyTheOldestGoes`
rests on a lemma about the list: of a ledger saved and one trimmed, what is kept and what is not.

`BarsInv`: a finding nobody posted is undecided, so that posting it tells no workspace
anything new.

### The copies, the credential and the rows

The copies (`KeyInv`, `SettingsInv`, `TokensInv`) go by one argument: what is kept, what an
open request will be answered with, and what was used last are each something the control
plane had no longer ago than the time allowed, counted from when it was had; the passing of
time shortens what is left of each alike, and what a workspace once had is not unlearned.
`SettingsInv` also needs that a row filled in by an older version's defaults says the same
as the row itself (`ConfigSent`).  `HistoryInv` is of another kind: as long as no call
failed and no two refreshes overlapped, a refresh has seen all that is stored, so that what
it writes back whole loses nothing (`InSequence`).

`SessionInv`: of the pairs a user's credential went through, the one stored is the newest or
there is none, or the answer of a renewal is still on its way, unless a sign-in and a renewal
crossed (`NewestInv`); a request no other overlapped asks with the newest pair, and gets
none only if its renewal failed or the authorization was withdrawn (`OverlapInv`); and an
installation that has not come back has ended nothing (`TripInv`).
`RowsInv`: a row that no delivery wrote last is dated no later than now, and a page load
that nothing disturbed has what GitHub had of each installation it is done with
(`CleanPage`).

### The page

The five clients are modules of their own, each with a copy of what it extends; the first
lemmas (`HostsPostAlike` and those after it) show that their calls do one of a few things to
a page (`Answered`): nothing, add what was refused in no part, take away one comment, close
a row.  What follows is argued once for all hosts.

- `GreenInv`: while a run goes its row says "running" or could not be written, and what
  the last review of the head asked for is what this run is about to say.
- `ReplyInv`: what a run of a push is about to remove was resolved, or has an older copy that stays
  (`Spares`); a run beside which no resolve ran has the page to itself.
- `OneInv` says two things of a run at each of its calls: what it is about to post is not on a page
  that was listed and cleared (`SingleInv`), and what it is not to post is there and stays
  (`KeepInv`).  `OneCommentForEach` has the hypothesis `FitsAPage` (no more findings or
  runs than a host lists in a page), because the code reads one page of comments and of reviews: with
  more, the property is false.  `CountInv`, that the page has no more reviews than there were
  runs, is what makes the hypothesis about constants enough.
- `PauseInv` holds as long as the page is `Known`: no call failed, no two jobs overlapped
  (`marred`), and the comments fit a page.  Then the newest mark says what was asked
  (`MarksSound`), and each job in progress knows what it would find (`JobSound`).
- `DescriptionInv`: until a mark is removed, the description has no mark or one whole block
  with the author's text around it (`WholeText`), and so has what a review is about to write;
  without an edit since it was read, that is the same text to the author.  Lemmas on joining and
  cutting sequences (`Joined`, `Parts`) give what stands where after the splice, an
  insertion and an erasure.

`PullIsKept` is the five together, for `PullSpec`, the specification the run `posting` checks:
each part of `PullSpec` implements its own specification, because none changes the host.

### What starts a review, what it reads, what it leaves

`TriggersInv`: the keys of the deduplication window are those of the jobs on the queue, one
each; every event the host has sent has its job there if it is to have one; and the head of
the open pull request has one.  That a delivery of an old event is harmless is that its key
is among them.

`ScopeInv`: a version of a file is given by one commit, and heads that are still spoken of agree on
their commits (`HeadsInv`).  So what still waits to be read was given by a commit that the
recorded head has not (`WaitsInv`), and the comparison with the recorded head shows it.
Files a forced push put back, or a filter let in again, are in `widened`, and the
property excuses them.

`ProofInv`: a sandbox that is still there has left a check that does not say "purged", unless
the stage was broken off.  `ProvenIsGone` is that part of the run's `FindingsAccountedFor`.

### What is only model-checked

Out of the provers' reach, and left to TLC:

- liveness under fairness: `SlotComesFree`, `EveryEntryIsTaken`, `EventuallySaved`;
- what recursive definitions and folds compute, which takes induction over data:
  `ReachIsComplete` (call chains), `LinesAreTrue` (the differ), `PageIsComplete` (the texts'
  folds), `ContextIsSound` (the packing), `LearnedIsHonest` (the confidence bar, the reports),
  and of `FindingsAccountedFor` that what was raised is found or left with a reason and
  that the serious is tried, which rest on the adjudicator's fold into clusters.

The violations that the four other runs show are, of course, not theorems.

## Not modelled

Wording, markup and payload formats, the content of a model's answer, parsing
of languages, cryptography and passwords, accounts and roles, sign-in by password, HTML pages,
URLs and paging loops of the host clients; the trimming of runs in the store (`trimReviewRuns`), a
founder's mutes and the proven feed; several pull requests at once (they share no slot and no
ledger; limits and ledgers' eviction are the exception, and there are @NPRS@ in
`Workspace`); the single-entry `dismiss`, which nothing calls; renaming a file back;
the in-process engine behind the bridge, where a submit
runs the review; evaluation, deployment, editors and scripts.
