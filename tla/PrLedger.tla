------------------------------ MODULE PrLedger ------------------------------
(***************************************************************************)
(* The finding ledger of one pull request: the pure rules of               *)
(* packages/review-session/src/ledger.ts.                                  *)
(*                                                                         *)
(* A diff is what the code measures: per file the hunk at each place of    *)
(* it, the files git calls renamed, and the base the hunks are cut         *)
(* against.  A digest is the value it digests, so digests are equal        *)
(* exactly when what they measure is.  The path of a file is               *)
(* <<file, 0>>, and <<file, 1>> once it is renamed; the identity of a      *)
(* finding, fingerprintOf, is its path and its defect.                     *)
(***************************************************************************)
EXTENDS Naturals, FiniteSets

CONSTANTS
  Files,
  Places,     \* where a file has hunks, in order from the top: 1, 2, ...
  Named,      \* the places whose hunk header names an enclosing symbol
  Defects,    \* what two findings of one file differ in: category and title, or rule
  MaxEntries  \* MAX_ENTRIES: entries kept, history beyond it is dropped

ASSUME LedgerAssumption ==
  /\ IsFiniteSet(Files) /\ IsFiniteSet(Defects)
  /\ Places \subseteq Nat \ {0} /\ IsFiniteSet(Places) /\ Named \subseteq Places /\ MaxEntries \in Nat

(***************************************************************************)
(* The text of a hunk; "grown" is a change that adds lines, and so moves   *)
(* every hunk below it.                                                    *)
(***************************************************************************)
NoHunk == "unchanged"
Texts == {NoHunk, "edited", "grown"}

OffHunk == 0
Paths == Files \X {0, 1}
PathOf(diff, f) == <<f, IF f \in diff.renamed THEN 1 ELSE 0>>

HasHunks(diff, f) == \E p \in Places : diff.text[f][p] # NoHunk

InDiff(diff, path) ==
  /\ path = PathOf(diff, path[1])
  /\ path[1] \in diff.renamed \/ HasHunks(diff, path[1])

(***************************************************************************)
(* fileDigests and regionDigests.  A region's digest holds the start of    *)
(* its hunk; a path without hunks, or a hunk git did not name, has none.   *)
(* A file that is only renamed has no hunk, and a digest all the same.     *)
(***************************************************************************)
NoDigest == <<>>

FileDigest(diff, path) ==
  IF ~InDiff(diff, path) THEN NoDigest
  ELSE <<IF HasHunks(diff, path[1]) THEN diff.base ELSE 0, diff.text[path[1]]>>

Start(diff, f, p) == Cardinality({q \in Places : q < p /\ diff.text[f][q] = "grown"})

RegionDigest(diff, path, p) ==
  IF InDiff(diff, path) /\ p \in Named /\ diff.text[path[1]][p] # NoHunk
    THEN <<diff.base, Start(diff, path[1], p), diff.text[path[1]][p]>> ELSE NoDigest

(***************************************************************************)
(* regionStamp: an entry in no named region keeps the fields it had.       *)
(***************************************************************************)
Stamp(e, diff, p) ==
  IF RegionDigest(diff, e.path, p) = NoDigest THEN e
  ELSE [e EXCEPT !.region = p, !.regionDigest = RegionDigest(diff, e.path, p)]

SameFinding(e, f) == e.path = f.path /\ e.defect = f.defect

IsOpen(e) == e.state = "open"

Open(ledger) == {e \in ledger.entries : IsOpen(e)}

(***************************************************************************)
(* migrateRenames: an open entry follows its file, and so does its         *)
(* identity.                                                               *)
(***************************************************************************)
\* Mutant: a renamed file is a new one.
MigrateNot(e, diff) == e

Migrate(e, diff) ==
  IF IsOpen(e) /\ e.path[1] \in diff.renamed THEN [e EXCEPT !.path = <<@[1], 1>>] ELSE e

(***************************************************************************)
(* A finding raised for the first time, and one raised again.              *)
(***************************************************************************)
Fresh(f, diff, sha) ==
  Stamp([path |-> f.path, defect |-> f.defect, place |-> f.place,
         region |-> OffHunk, regionDigest |-> NoDigest,
         fileDigest |-> FileDigest(diff, f.path), lastSeen |-> sha, state |-> "open"],
        diff, f.place)

Repeat(e, f, diff, sha) ==
  Stamp([e EXCEPT !.place = f.place, !.lastSeen = sha, !.fileDigest = FileDigest(diff, e.path)],
        diff, f.place)

(***************************************************************************)
(* An open entry the review was silent about.  land is the place where the *)
(* new diff has the line the entry was last seen on.                       *)
(***************************************************************************)
Restamp(e, diff, land) ==
  LET current == FileDigest(diff, e.path)
  IN Stamp([e EXCEPT !.fileDigest = IF current = NoDigest THEN @ ELSE current],
           diff, land[e.place])

RegionHeld(e, diff) ==
  /\ e.region # OffHunk
  /\ RegionDigest(diff, e.path, e.region) \in {NoDigest, e.regionDigest}

Silent(e, diff, rewritten, land) ==
  LET current == FileDigest(diff, e.path)
  IN IF rewritten THEN Restamp(e, diff, land)
     ELSE IF current = NoDigest /\ e.fileDigest # NoDigest THEN [e EXCEPT !.state = "reverted"]
     ELSE IF current = e.fileDigest THEN e
     ELSE IF RegionHeld(e, diff) THEN [e EXCEPT !.fileDigest = current]
     ELSE [e EXCEPT !.state = "fixed"]

Folded(e, findings, diff, sha, rewritten, land) ==
  LET hits == {f \in findings : SameFinding(e, f)}
  IN IF ~IsOpen(e) THEN e
     ELSE IF hits # {} THEN Repeat(e, CHOOSE f \in hits : TRUE, diff, sha)
     ELSE Silent(e, diff, rewritten, land)

(***************************************************************************)
(* trim: open entries are never dropped, and which closed ones survive     *)
(* matters to nothing here.                                                *)
(***************************************************************************)
\* Mutant: what is open may go with the rest.
TrimAny(entries) ==
  IF Cardinality(entries) <= MaxEntries THEN entries
  ELSE CHOOSE kept \in SUBSET entries : Cardinality(kept) = MaxEntries

Trim(entries) ==
  LET open   == {e \in entries : IsOpen(e)}
      room   == IF Cardinality(open) < MaxEntries THEN MaxEntries - Cardinality(open) ELSE 0
      closed == entries \ open
  IN IF Cardinality(entries) <= MaxEntries THEN entries
     ELSE open \cup (CHOOSE kept \in SUBSET closed : Cardinality(kept) = room)

(***************************************************************************)
(* reconcile.  A base is <<b>>, or NoBase where nobody measured it: only   *)
(* two measured bases that differ say that history was rewritten.          *)
(***************************************************************************)
NoBase == <<>>

EmptyLedger == [entries |-> {}, reviewsUsed |-> 0, lastBase |-> NoBase]

\* Mutant: only the hunks are compared.
HistoryNeverRewritten(prior, base) == FALSE

HistoryRewritten(prior, base) ==
  base # NoBase /\ prior.lastBase # NoBase /\ base # prior.lastBase

\* Mutant: what is new is looked up under the paths of before the rename.
ReconcileByOldPath(prior, findings, diff, sha, base, land) ==
  LET next  == {Folded(Migrate(e, diff), findings, diff, sha, HistoryRewritten(prior, base), land) :
                  e \in prior.entries}
      claimed(f) == \E e \in prior.entries : IsOpen(e) /\ SameFinding(e, f)
      fresh == {Fresh(f, diff, sha) : f \in {f \in findings : ~claimed(f)}}
  IN [entries |-> Trim(next \cup fresh), reviewsUsed |-> prior.reviewsUsed + 1, lastBase |-> base]

Reconcile(prior, findings, diff, sha, base, land) ==
  LET entries   == {Migrate(e, diff) : e \in prior.entries}
      rewritten == HistoryRewritten(prior, base)
      next      == {Folded(e, findings, diff, sha, rewritten, land) : e \in entries}
      claimed(f) == \E e \in entries : IsOpen(e) /\ SameFinding(e, f)
      fresh     == {Fresh(f, diff, sha) : f \in {f \in findings : ~claimed(f)}}
  IN [entries |-> Trim(next \cup fresh), reviewsUsed |-> prior.reviewsUsed + 1, lastBase |-> base]

(***************************************************************************)
(* What reconcile reports as resolved, whether the trim keeps it or not.   *)
(***************************************************************************)
Resolved(prior, findings, diff, sha, base, land) ==
  LET silent == {Folded(Migrate(e, diff), findings, diff, sha, HistoryRewritten(prior, base), land) :
                   e \in Open(prior)}
  IN {e \in silent : ~IsOpen(e)}

(***************************************************************************)
(* What a review carries: open after it, and not raised by it.             *)
(***************************************************************************)
Carried(ledger, findings) ==
  {e \in Open(ledger) : \A f \in findings : ~SameFinding(e, f)}

DismissAll(ledger) ==
  [ledger EXCEPT !.entries = {IF IsOpen(e) THEN [e EXCEPT !.state = "dismissed"] ELSE e : e \in @}]
=============================================================================
