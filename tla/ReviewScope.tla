----------------------------- MODULE ReviewScope ----------------------------
(***************************************************************************)
(* Which files of a pull request a review reads, when it reads only what   *)
(* the last push changed (CAVIX_NARROW_REREVIEWS): the path filters        *)
(* (workflow/pathFilter.ts), the scope of a re-review                      *)
(* (packages/review-session/src/scope.ts) and the part of runReview that   *)
(* fetches the two diffs and records the head (reviewWorkflow.ts).         *)
(*                                                                         *)
(* A commit is [id, snap]: what version of each file it has; a head is the *)
(* sequence of commits that lead to it.                                    *)
(***************************************************************************)
EXTENDS Naturals, Sequences, FiniteSets

CONSTANTS
  Files,
  Odd,          \* files whose name, read as a pattern, does not match itself
  MaxCommits,   \* bound: commits and changes of the path filters
  MaxReviews    \* bound: reviews

\* What the constants are.
ReviewScopeAssumption == MaxCommits \in Nat /\ MaxReviews \in Nat

VARIABLES
  base, chain, clock,   \* the target branch, the head, the last version given
  excluded,             \* the files the path filters leave out
  recorded,             \* the ledger: the head reviewed last, and the files with open findings
  run,                  \* the review in progress
  read,                 \* history: the versions of each file that were read
  widened,              \* history: files the filters let in again, or a rewritten push put back
  reviews               \* bound: reviews so far

vars == <<base, chain, clock, excluded, recorded, run, read, widened, reviews>>

NoHead == <<>>
Idle == [at |-> "idle"]

Top(c) == c[Len(c)].snap

(* The pull request's diff, and the host's comparison of two heads, which
   starts at their last common commit. *)
VerdictDiff(head) == {f \in Files : Top(head)[f] # base[f]}

Common(from, to) ==
  LET shared == {n \in 1..Len(from) : n <= Len(to) /\ \A i \in 1..n : from[i].id = to[i].id}
  IN CHOOSE n \in shared : \A m \in shared : m <= n

FetchCompareDiff(from, to) ==
  IF from = to THEN {} ELSE {f \in Files : Top(to)[f] # from[Common(from, to)].snap[f]}

FilterDiff(diff, include, exclude) == {f \in diff \ exclude : include = {} \/ f \in include \ Odd}

(***************************************************************************)
(* scopeFor: hot files the push changed, warm ones with open findings, and *)
(* the others; everything is hot when the two diffs do not agree.          *)
(***************************************************************************)
Full(diff) == [hot |-> diff, warm |-> {}, cold |-> {}, narrowed |-> FALSE]

ScopeFor(diff, delta, open, prior, head) ==
  LET rest == diff \ delta
  IN IF \/ prior = NoHead \/ prior = head
        \/ delta = {}
        \/ ~(delta \subseteq diff)
        \/ rest = {}
     THEN Full(diff)
     ELSE [hot |-> delta, warm |-> rest \cap open, cold |-> rest \ open, narrowed |-> TRUE]

OpenInSkippedFiles(open, scope) == IF scope.narrowed THEN open \cap (scope.warm \cup scope.cold) ELSE {}

Init ==
  /\ base = [f \in Files |-> 0]
  /\ \E changed \in SUBSET Files \ {{}} :
       chain = <<[id |-> 0, snap |-> base], [id |-> 1, snap |-> [f \in Files |-> IF f \in changed THEN 1 ELSE 0]]>>
  /\ clock = 1
  /\ excluded \in SUBSET Files
  /\ recorded = [head |-> NoHead, open |-> {}]
  /\ run = Idle
  /\ read = [f \in Files |-> {}]
  /\ widened = {} /\ reviews = 0

(***************************************************************************)
(* The author adds a commit, drops the newest ones for another (also back  *)
(* to what the target branch has), or merges the target branch in; the     *)
(* owner changes the path filters.                                         *)
(***************************************************************************)
Commit(keep, changed, reverted) ==
  /\ clock < MaxCommits /\ changed \cap reverted = {} /\ changed \cup reverted # {}
  /\ clock' = clock + 1
  /\ chain' = Append(SubSeq(chain, 1, keep),
       [id |-> clock', snap |-> [f \in Files |-> CASE f \in changed -> clock'
                                                   [] f \in reverted -> base[f]
                                                   [] OTHER -> chain[keep].snap[f]]])
  /\ widened' = widened \cup {f \in Files \ (changed \cup reverted) : chain[keep].snap[f] # Top(chain)[f]}
  /\ UNCHANGED <<base, excluded, recorded, run, read, reviews>>

MergeBase(changed) ==
  /\ clock < MaxCommits
  /\ clock' = clock + 1
  /\ base' = [f \in Files |-> IF f \in changed THEN clock' ELSE base[f]]
  /\ chain' = Append(chain, [id |-> clock', snap |-> [f \in Files |->
                CASE f \in changed /\ f \notin VerdictDiff(chain) -> clock'
                  [] f \in changed /\ f \in VerdictDiff(chain) -> clock' + MaxCommits
                  [] OTHER -> Top(chain)[f]]])
  /\ UNCHANGED <<excluded, recorded, run, read, widened, reviews>>

SetFilters(to) ==
  /\ to # excluded /\ clock < MaxCommits
  /\ clock' = clock + 1
  /\ excluded' = to
  /\ widened' = widened \cup (excluded \ to)
  /\ UNCHANGED <<base, chain, recorded, run, read, reviews>>

(***************************************************************************)
(* The review.                                                             *)
(***************************************************************************)
Begin(fresh) ==
  /\ run = Idle /\ reviews < MaxReviews
  /\ reviews' = reviews + 1
  /\ run' = [at |-> "fetch", fresh |-> fresh, head |-> chain, exclude |-> excluded]
  /\ UNCHANGED <<base, chain, clock, excluded, recorded, read, widened>>

(* The diff is that of the pull request now, whatever head was resolved.
   The ledger may be out of reach, the comparison may fail, and a name that
   does not match itself reads everything. *)
ReadFiles(known, compared) ==
  /\ run.at = "fetch"
  /\ LET diff == FilterDiff(VerdictDiff(chain), {}, run.exclude)
         delta == IF compared THEN FetchCompareDiff(recorded.head, run.head) ELSE {}
         scope == IF run.fresh \/ ~known \/ recorded.head = NoHead THEN Full(diff)
                  ELSE ScopeFor(diff, delta, recorded.open, recorded.head, run.head)
         hot == FilterDiff(diff, scope.hot, {})
         reads == IF scope.narrowed /\ hot = scope.hot THEN hot ELSE diff
     IN /\ read' = [f \in Files |-> IF f \in reads THEN read[f] \cup {Top(chain)[f]} ELSE read[f]]
        /\ widened' = widened \ reads
        /\ run' = IF diff = {} THEN Idle
                  ELSE [at |-> "post", head |-> run.head, known |-> known, diff |-> diff, reads |-> reads,
                        skipped |-> OpenInSkippedFiles(recorded.open, scope)]
  /\ UNCHANGED <<base, chain, clock, excluded, recorded, reviews>>

(* The change of Post that records the head of the moment. *)
PostOfNow(found, saved) ==
  /\ run.at = "post" /\ found \subseteq run.reads
  /\ recorded' = IF run.known /\ saved THEN [head |-> chain, open |-> found \cup (recorded.open \ run.reads)] ELSE recorded
  /\ run' = Idle
  /\ UNCHANGED <<base, chain, clock, excluded, read, widened, reviews>>

(* The head goes on record with the review, unless the ledger was not read,
   a stage threw or the save was lost.  A finding in a file that was not
   read stays open. *)
Post(found, saved) ==
  /\ run.at = "post" /\ found \subseteq run.reads
  /\ recorded' = IF run.known /\ saved THEN [head |-> run.head, open |-> found \cup (recorded.open \ run.reads)] ELSE recorded
  /\ run' = Idle
  /\ UNCHANGED <<base, chain, clock, excluded, read, widened, reviews>>

Next ==
  \/ \E keep \in 1..Len(chain), changed, reverted \in SUBSET Files : Commit(keep, changed, reverted)
  \/ \E changed \in SUBSET Files \ {{}} : MergeBase(changed)
  \/ \E to \in SUBSET Files : SetFilters(to)
  \/ \E fresh \in BOOLEAN : Begin(fresh)
  \/ \E known, compared \in BOOLEAN : ReadFiles(known, compared)
  \/ \E found \in SUBSET Files, saved \in BOOLEAN : Post(found, saved)

Spec == Init /\ [][Next]_vars
-----------------------------------------------------------------------------
TypeOK ==
  /\ chain # <<>> /\ excluded \subseteq Files /\ recorded.open \subseteq Files /\ widened \subseteq Files
  /\ run.at \in {"idle", "fetch", "post"}

(* Once the head on record is the head of the pull request, every file of
   its diff has been read as it is there, by this review or an earlier one,
   unless the filters let it in again after they left it out, or a forced
   push put an earlier version of it back: those are the files that a
   narrowed review never gets to (scopeFor compares with the last head
   only, and does not know that history was rewritten). *)
NothingUnread ==
  recorded.head = chain /\ run = Idle =>
    \A f \in VerdictDiff(chain) \ (excluded \cup widened) : Top(chain)[f] \in read[f]

=============================================================================
