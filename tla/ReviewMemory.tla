---------------------------- MODULE ReviewMemory ----------------------------
(***************************************************************************)
(* What the reviews of one pull request remember of each other: the author *)
(* who pushes, the reviews that fold what they found into the ledger       *)
(* (runReview of reviewWorkflow.ts), "@cavixcode resolve" (clearLedger),   *)
(* the fail-soft client of report/ledger.ts, and the stored ledger         *)
(* (prLedger, savePrLedger of the control plane).                          *)
(*                                                                         *)
(* A review reads the diff, then the ledger, posts, and saves the whole    *)
(* ledger back; a resolve reads it and saves it back.  Nothing but the     *)
(* slot of ReviewWorkflow keeps two reviews apart, and nothing keeps a     *)
(* resolve apart from a review.                                            *)
(***************************************************************************)
EXTENDS PrLedger, Sequences

CONSTANTS
  Reviewers,   \* reviews that can be in flight at once
  Overlap,     \* whether the ledger's writers overlap
  Commands,    \* whether some reviews are typed commands, which carry no base
  MaxPushes,   \* bound: pushes, renames and rebases
  MaxPosts,    \* bound: reviews posted
  MaxLost      \* bound: ledger calls that fail

ASSUME MemoryAssumption ==
  /\ Overlap \in BOOLEAN /\ Commands \in BOOLEAN
  /\ MaxPushes \in Nat /\ MaxPosts \in Nat /\ MaxLost \in Nat

VARIABLES
  diff,     \* the pull request's diff now: base, hunks, renames
  bases,    \* base.sha of every webhook so far; a head is a position in it
  touched,  \* history: the head that last changed the hunks of each file and place
  ledger,   \* the control plane's PrLedger of this pull request
  review,   \* where each review is, and what it holds
  resolve,  \* the resolve command in flight, and the ledger it read
  posted,   \* history: reviews on the page
  lost

vars == <<diff, bases, touched, ledger, review, resolve, posted, lost>>
codeVars == <<diff, bases, touched>>

HeadNow == Len(bases)
Idle == [at |-> "idle"]
Quiet == resolve = Idle /\ \A i \in Reviewers : review[i] = Idle
MayBegin == Overlap \/ Quiet

Init ==
  /\ diff = [base |-> 0, text |-> [f \in Files |-> [p \in Places |-> NoHunk]], renamed |-> {}]
  /\ bases = <<>>
  /\ touched = [f \in Files |-> [p \in Places |-> 0]]
  /\ ledger = EmptyLedger
  /\ review = [i \in Reviewers |-> Idle]
  /\ resolve = Idle
  /\ posted = 0 /\ lost = 0

(***************************************************************************)
(* The author: changes a hunk, renames a file, or rebases the branch onto  *)
(* a newer base, which cuts every hunk anew.                               *)
(***************************************************************************)
Push(f, p, t) ==
  /\ HeadNow < MaxPushes /\ diff.text[f][p] # t
  /\ diff' = [diff EXCEPT !.text[f][p] = t]
  /\ bases' = Append(bases, diff.base)
  /\ touched' = [touched EXCEPT ![f][p] = HeadNow + 1]
  /\ UNCHANGED <<ledger, review, resolve, posted, lost>>

Rename(f) ==
  /\ HeadNow < MaxPushes /\ f \notin diff.renamed
  /\ diff' = [diff EXCEPT !.renamed = @ \cup {f}]
  /\ bases' = Append(bases, diff.base)
  /\ UNCHANGED <<touched, ledger, review, resolve, posted, lost>>

Rebase ==
  /\ HeadNow < MaxPushes
  /\ diff' = [diff EXCEPT !.base = @ + 1]
  /\ bases' = Append(bases, diff.base + 1)
  /\ UNCHANGED <<touched, ledger, review, resolve, posted, lost>>

(***************************************************************************)
(* A review fetches the diff the pull request has now.  Its head and base  *)
(* are its webhook's, which may be an older push's; a command has the head *)
(* of now and no base.  What the reviewer finds in that diff is anything.  *)
(***************************************************************************)
Found(where) ==
  {[path |-> PathOf(diff, x[1]), defect |-> x[2], place |-> where[x]] : x \in DOMAIN where}

ReadDiff(i, sha, base) ==
  /\ review[i] = Idle /\ MayBegin /\ posted < MaxPosts
  /\ \E f \in Files : InDiff(diff, PathOf(diff, f))
  /\ \E reported \in SUBSET (Files \X Defects) : \E where \in [reported -> Places \cup {OffHunk}] :
       review' = [review EXCEPT ![i] = [at |-> "read", sha |-> sha, base |-> base,
                                        diff |-> diff, findings |-> Found(where)]]
  /\ UNCHANGED <<codeVars, ledger, resolve, posted, lost>>

WebhookReview(i) == \E h \in 1..HeadNow : ReadDiff(i, h, <<bases[h]>>)

CommandReview(i) == Commands /\ HeadNow > 0 /\ ReadDiff(i, HeadNow, NoBase)

(***************************************************************************)
(* Fetch the ledger and reconcile.  The verdict counts what the review     *)
(* raised and what it carries.  A ledger that could not be read counts as  *)
(* empty, and is not written back.                                         *)
(***************************************************************************)
Lands(prior, base) ==
  IF HistoryRewritten(prior, base)
    THEN [Places \cup {OffHunk} -> Places \cup {OffHunk}]
    ELSE {[p \in Places \cup {OffHunk} |-> p]}

\* Mutant: the verdict is what the model said this time.
VerdictNow(folded, findings) == IF findings = {} THEN "success" ELSE "failure"

Verdict(folded, findings) ==
  IF findings = {} /\ Carried(folded, findings) = {} THEN "success" ELSE "failure"

FoldInto(i, prior, known) ==
  \E land \in Lands(prior, review[i].base) :
    LET v == review[i]
        folded == Reconcile(prior, v.findings, v.diff, v.sha, v.base, land)
    IN review' = [review EXCEPT ![i] =
         [at |-> "folded", known |-> known, next |-> folded,
          resolved |-> Resolved(prior, v.findings, v.diff, v.sha, v.base, land),
          check |-> Verdict(folded, v.findings)]]

Fold(i) ==
  /\ review[i].at = "read"
  /\ \/ FoldInto(i, ledger, TRUE) /\ UNCHANGED lost
     \/ lost < MaxLost /\ lost' = lost + 1 /\ FoldInto(i, EmptyLedger, FALSE)
  /\ UNCHANGED <<codeVars, ledger, resolve, posted>>

(***************************************************************************)
(* The review goes on the page, and its check run closes.                  *)
(***************************************************************************)
Post(i) ==
  /\ review[i].at = "folded" /\ posted < MaxPosts
  /\ posted' = posted + 1
  /\ review' = [review EXCEPT ![i].at = "posted"]
  /\ UNCHANGED <<codeVars, ledger, resolve, lost>>

(***************************************************************************)
(* Only then is the ledger saved, and only if it was read.                 *)
(***************************************************************************)
\* Mutant: a ledger that was not read is written back, too.
SaveUnread(i) ==
  /\ review[i].at = "posted"
  /\ review' = [review EXCEPT ![i] = Idle]
  /\ ledger' = review[i].next
  /\ UNCHANGED <<codeVars, resolve, posted, lost>>

Save(i) ==
  /\ review[i].at = "posted"
  /\ review' = [review EXCEPT ![i] = Idle]
  /\ \/ /\ ledger' = IF review[i].known THEN review[i].next ELSE ledger
        /\ UNCHANGED lost
     \/ review[i].known /\ lost < MaxLost /\ lost' = lost + 1 /\ UNCHANGED ledger
  /\ UNCHANGED <<codeVars, resolve, posted>>

(***************************************************************************)
(* Superseded, failed or crashed before the page has it.                   *)
(***************************************************************************)
\* Mutant: the ledger of a review that failed to post is saved.
DropAfterSave(i) ==
  /\ review[i].at = "folded"
  /\ review' = [review EXCEPT ![i] = Idle]
  /\ ledger' = review[i].next
  /\ UNCHANGED <<codeVars, resolve, posted, lost>>

Drop(i) ==
  /\ review[i].at \in {"read", "folded"}
  /\ review' = [review EXCEPT ![i] = Idle]
  /\ UNCHANGED <<codeVars, ledger, resolve, posted, lost>>

(***************************************************************************)
(* clearLedger: nothing open, or nothing read, is nothing to close.        *)
(***************************************************************************)
ResolveRead ==
  /\ resolve = Idle /\ MayBegin
  /\ Open(ledger) # {}
  /\ resolve' = [at |-> "read", ledger |-> ledger]
  /\ UNCHANGED <<codeVars, ledger, review, posted, lost>>

ResolveSave ==
  /\ resolve.at = "read"
  /\ resolve' = Idle
  /\ \/ ledger' = DismissAll(resolve.ledger) /\ UNCHANGED lost
     \/ lost < MaxLost /\ lost' = lost + 1 /\ UNCHANGED ledger
  /\ UNCHANGED <<codeVars, review, posted>>

Author ==
  \/ \E f \in Files, p \in Places, t \in Texts : Push(f, p, t)
  \/ \E f \in Files : Rename(f)
  \/ Rebase

ReviewStep(i) ==
  WebhookReview(i) \/ CommandReview(i) \/ Fold(i) \/ Post(i) \/ Save(i) \/ Drop(i)

Next == Author \/ (\E i \in Reviewers : ReviewStep(i)) \/ ResolveRead \/ ResolveSave

Spec == Init /\ [][Next]_vars

-----------------------------------------------------------------------------
Heads == 0..MaxPushes
Diffs == [base : Heads, text : [Files -> [Places -> Texts]], renamed : SUBSET Files]
Bases == {NoBase} \cup {<<b>> : b \in Heads}
FileDigests == {NoDigest} \cup (Heads \X [Places -> Texts])
RegionDigests == {NoDigest} \cup (Heads \X (0..Cardinality(Places)) \X Texts)

Entries ==
  [path : Paths, defect : Defects, place : Places \cup {OffHunk}, region : Places \cup {OffHunk},
   regionDigest : RegionDigests, fileDigest : FileDigests, lastSeen : Heads,
   state : {"open", "fixed", "reverted", "dismissed"}]

IsLedger(l) ==
  /\ l.entries \subseteq Entries /\ l.reviewsUsed \in Nat /\ l.lastBase \in Bases
  /\ DOMAIN l = {"entries", "reviewsUsed", "lastBase"}

(***************************************************************************)
(* Every variable has its type, and no finding is open twice: reconcile    *)
(* claims an open entry's identity before it opens another.                *)
(***************************************************************************)
TypeOK ==
  /\ diff \in Diffs
  /\ HeadNow <= MaxPushes /\ \A h \in 1..HeadNow : bases[h] \in Heads
  /\ touched \in [Files -> [Places -> Heads]]
  /\ IsLedger(ledger)
  /\ \A i \in Reviewers :
       /\ review[i].at \in {"idle", "read", "folded", "posted"}
       /\ review[i].at = "read" => review[i].diff \in Diffs /\ review[i].base \in Bases
       /\ review[i].at \in {"folded", "posted"} =>
            IsLedger(review[i].next) /\ review[i].resolved \subseteq Entries
  /\ resolve.at \in {"idle", "read"}
  /\ posted \in 0..MaxPosts /\ lost \in 0..MaxLost

OpenOnce ==
  \A e1, e2 \in Open(ledger) : SameFinding(e1, e2) => e1 = e2

(***************************************************************************)
(* The reviewer's silence, as a relation of the step that folds it: entry  *)
(* e of the stored ledger is closed by review i for that reason.           *)
(***************************************************************************)
SameDefect(e1, e2) == e1.path[1] = e2.path[1] /\ e1.defect = e2.defect

ClosedBy(i, e, reason) ==
  /\ review[i].at = "read" /\ review'[i].at = "folded" /\ review'[i].known
  /\ \E e2 \in review'[i].next.entries :
       SameDefect(e, e2) /\ e2.lastSeen = e.lastSeen /\ e2.state = reason
  /\ ~\E e2 \in ledger.entries :
       SameDefect(e, e2) /\ e2.lastSeen = e.lastSeen /\ e2.state = reason

TouchedSince(f, h) == \E p \in Places : touched[f][p] > h

(***************************************************************************)
(* Rule 1 of ledger.ts, "a finding is never cleared by silence": an entry  *)
(* is fixed only if its file changed after the review that last raised it. *)
(* A rebase does not count as a change, provided both reviews carried the  *)
(* base their diff was cut against.  A finding off the diff "stays open    *)
(* until the file enters the pull request".                                *)
(***************************************************************************)
MeasuredBase(i) == review[i].base = <<review[i].diff.base>> /\ ledger.lastBase # NoBase

NeverClearedBySilence ==
  [][\A i \in Reviewers : \A e \in Open(ledger) :
       ClosedBy(i, e, "fixed") /\ MeasuredBase(i) =>
         TouchedSince(e.path[1], e.lastSeen) \/ e.fileDigest = NoDigest]_vars

(***************************************************************************)
(* An entry is reverted only if its file has left the pull request: a      *)
(* rename is not a revert.                                                 *)
(***************************************************************************)
RevertedOnlyIfGone ==
  [][\A i \in Reviewers : \A e \in Open(ledger) :
       ClosedBy(i, e, "reverted") =>
         ~InDiff(review[i].diff, PathOf(review[i].diff, e.path[1]))]_vars

(***************************************************************************)
(* "Open entries are never dropped": what a review raises is open on the   *)
(* record it makes, and no write makes an open finding vanish.  It is      *)
(* still open after it, or the review that wrote it reported it resolved,  *)
(* or it was dismissed; of what is closed, only what there is no room for  *)
(* leaves the record.                                                      *)
(***************************************************************************)
Full(l) == Cardinality(l.entries) >= MaxEntries

NothingForgotten ==
  [][/\ \A i \in Reviewers :
          review[i].at = "read" /\ review'[i].at = "folded" =>
            \A f \in review[i].findings : \E e \in Open(review'[i].next) : SameFinding(e, f)
     /\ \A e \in Open(ledger) :
          \/ \E e2 \in Open(ledger') : SameDefect(e, e2)
          \/ \E i \in Reviewers :
               /\ review[i].at = "posted" /\ ledger' = review[i].next
               /\ \E e2 \in review[i].resolved :
                    SameDefect(e, e2) /\ (e2 \in ledger'.entries \/ Full(ledger'))
          \/ /\ resolve.at = "read" /\ ledger' = DismissAll(resolve.ledger)
             /\ \E e2 \in ledger'.entries : SameDefect(e, e2) /\ e2.state = "dismissed"]_vars

(***************************************************************************)
(* "The verdict cannot be what did the model say this time": the check of  *)
(* a review that read the ledger is green only if every finding open on    *)
(* the record is settled by that review, and none is left open by it.      *)
(***************************************************************************)
Settled(i, e) ==
  \E e2 \in review[i].resolved : SameDefect(e, e2) /\ e2.state \in {"fixed", "reverted"}

GreenMeansSettled ==
  [][\A i \in Reviewers :
       /\ review[i].at = "folded" /\ review'[i].at = "posted"
       /\ review[i].known /\ review[i].check = "success"
       => Open(review[i].next) = {} /\ \A e \in Open(ledger) : Settled(i, e)]_vars

(***************************************************************************)
(* reviewsUsed, what the budget counts, is never more than the reviews on  *)
(* the page: one that failed before it got there costs nothing.            *)
(***************************************************************************)
UsedOnlyIfPosted == ledger.reviewsUsed <= posted
=============================================================================
