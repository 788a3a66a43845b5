------------------------- MODULE ReviewMemory_proof --------------------------
(***************************************************************************)
(* What the reviews of a pull request remember, for any files, hunks,      *)
(* findings, pushes, reviews and losses.  The budget is never charged for  *)
(* a review that is not on the page; and, while the ledger has one writer  *)
(* at a time, no finding is opened twice, forgotten, cleared by silence or *)
(* by a rename, or hidden by a green check.                                *)
(***************************************************************************)
EXTENDS ReviewMemory, SequenceTheorems, FiniteSetTheorems, TLAPS

-----------------------------------------------------------------------------
(* What diffs, findings, entries and ledgers are. *)

AnyDiff == [base : Nat, text : [Files -> [Places -> Texts]], renamed : SUBSET Files]
AnyBase == {NoBase} \cup {<<b>> : b \in Nat}
AnyFileDigest == {NoDigest} \cup (Nat \X [Places -> Texts])
AnyRegionDigest == {NoDigest} \cup (Nat \X Nat \X Texts)
Spots == Places \cup {OffHunk}

AnyEntry ==
  [path : Paths, defect : Defects, place : Spots, region : Spots,
   regionDigest : AnyRegionDigest, fileDigest : AnyFileDigest, lastSeen : Nat,
   state : {"open", "fixed", "reverted", "dismissed"}]

AnyLedger == [entries : SUBSET AnyEntry, reviewsUsed : Nat, lastBase : AnyBase]

AnyFinding == [path : Paths, defect : Defects, place : Spots]

(* A review reports a finding once, at the path its diff has. *)
Reported(findings, d) ==
  /\ findings \subseteq AnyFinding /\ IsFiniteSet(findings)
  /\ \A f \in findings : f.path = PathOf(d, f.path[1])
  /\ \A f, g \in findings : f.path = g.path /\ f.defect = g.defect => f = g

(* A digest is a pair or nothing, and has a number and a text. *)
LEMMA DigestShape ==
  /\ \A x, y : <<x, y>> # NoDigest
  /\ \A x, y, z : <<x, y, z>> # NoDigest
  /\ \A b : <<b>> # NoBase
  BY DEF NoDigest, NoBase

(* What a file measures. *)
LEMMA FileMeasures ==
  ASSUME NEW d \in AnyDiff, NEW path \in Paths
  PROVE  /\ FileDigest(d, path) \in AnyFileDigest
         /\ path[1] \in Files
         /\ FileDigest(d, path) = NoDigest <=> ~InDiff(d, path)
         /\ InDiff(d, path) => FileDigest(d, path) = <<IF HasHunks(d, path[1]) THEN d.base ELSE 0, d.text[path[1]]>>
  <1>1. path[1] \in Files
    BY DEF Paths
  <1>2. d.base \in Nat /\ d.text[path[1]] \in [Places -> Texts]
    BY <1>1 DEF AnyDiff
  <1>3. (IF HasHunks(d, path[1]) THEN d.base ELSE 0) \in Nat
    BY <1>2
  <1> DEFINE n == IF HasHunks(d, path[1]) THEN d.base ELSE 0
  <1>4. <<n, d.text[path[1]]>> \in Nat \X [Places -> Texts]
    BY <1>2, <1>3
  <1>5. FileDigest(d, path) = IF ~InDiff(d, path) THEN NoDigest ELSE <<n, d.text[path[1]]>>
    BY DEF FileDigest
  <1> HIDE DEF n
  <1>6. <<n, d.text[path[1]]>> # NoDigest
    BY DigestShape
  <1> QED
    BY <1>1, <1>4, <1>5, <1>6 DEF AnyFileDigest, n

(* What a region measures. *)
LEMMA RegionMeasures ==
  ASSUME LedgerAssumption, NEW d \in AnyDiff, NEW path \in Paths, NEW p \in Spots
  PROVE  RegionDigest(d, path, p) \in AnyRegionDigest /\ (RegionDigest(d, path, p) # NoDigest => p \in Places)
  <1>1. path[1] \in Files
    BY DEF Paths
  <1>2. d.base \in Nat /\ d.text[path[1]] \in [Places -> Texts]
    BY <1>1 DEF AnyDiff
  <1>3. Start(d, path[1], p) \in Nat
    BY FS_Subset, FS_CardinalityType DEF Start, LedgerAssumption
  <1>4. ASSUME InDiff(d, path) /\ p \in Named /\ d.text[path[1]][p] # NoHunk
        PROVE  p \in Places /\ <<d.base, Start(d, path[1], p), d.text[path[1]][p]>> \in Nat \X Nat \X Texts
    <2>1. p \in Places
      BY <1>4 DEF LedgerAssumption
    <2> QED
      BY <1>2, <1>3, <2>1
  <1> QED
    BY <1>4, DigestShape DEF RegionDigest, AnyRegionDigest

(* A stamp changes the region of an entry only. *)
LEMMA Stamps ==
  ASSUME LedgerAssumption, NEW d \in AnyDiff, NEW e \in AnyEntry, NEW p \in Spots
  PROVE  /\ Stamp(e, d, p) \in AnyEntry
         /\ Stamp(e, d, p).path = e.path /\ Stamp(e, d, p).defect = e.defect
         /\ Stamp(e, d, p).fileDigest = e.fileDigest /\ Stamp(e, d, p).lastSeen = e.lastSeen
         /\ Stamp(e, d, p).state = e.state
  <1>1. e.path \in Paths
    BY DEF AnyEntry
  <1>2. RegionDigest(d, e.path, p) \in AnyRegionDigest
    BY <1>1, RegionMeasures
  <1> QED
    BY <1>2 DEF Stamp, AnyEntry

(* An open entry follows its file; nothing else of it changes. *)
LEMMA Migrates ==
  ASSUME NEW d \in AnyDiff, NEW e \in AnyEntry
  PROVE  /\ Migrate(e, d) \in AnyEntry /\ Migrate(e, d).path[1] = e.path[1]
         /\ Migrate(e, d).defect = e.defect /\ Migrate(e, d).fileDigest = e.fileDigest
         /\ Migrate(e, d).lastSeen = e.lastSeen /\ Migrate(e, d).state = e.state
         /\ ~IsOpen(e) => Migrate(e, d) = e
         /\ IsOpen(e) /\ (e.path[2] = 1 => e.path[1] \in d.renamed)
              => Migrate(e, d).path = PathOf(d, e.path[1])
  <1>1. e.path \in Files \X {0, 1} /\ e.path = <<e.path[1], e.path[2]>> /\ e.path[1] \in Files /\ e.path[2] \in {0, 1}
    BY DEF AnyEntry, Paths
  <1>2. CASE IsOpen(e) /\ e.path[1] \in d.renamed
    <2>1. Migrate(e, d) = [e EXCEPT !.path = <<e.path[1], 1>>]
      BY <1>2 DEF Migrate
    <2>2. <<e.path[1], 1>> \in Paths
      BY <1>1 DEF Paths
    <2> QED
      BY <1>1, <1>2, <2>1, <2>2 DEF AnyEntry, PathOf, IsOpen
  <1>3. CASE ~(IsOpen(e) /\ e.path[1] \in d.renamed)
    <2>1. Migrate(e, d) = e
      BY <1>3 DEF Migrate
    <2> QED
      BY <1>1, <1>3, <2>1 DEF PathOf
  <1> QED
    BY <1>2, <1>3

(* A finding raised for the first time is open and measured. *)
LEMMA Freshly ==
  ASSUME LedgerAssumption, NEW d \in AnyDiff, NEW f \in AnyFinding, NEW sha \in Nat
  PROVE  /\ Fresh(f, d, sha) \in AnyEntry
         /\ Fresh(f, d, sha).path = f.path /\ Fresh(f, d, sha).defect = f.defect
         /\ Fresh(f, d, sha).fileDigest = FileDigest(d, f.path) /\ Fresh(f, d, sha).lastSeen = sha
         /\ IsOpen(Fresh(f, d, sha))
  <1> DEFINE e == [path |-> f.path, defect |-> f.defect, place |-> f.place,
                   region |-> OffHunk, regionDigest |-> NoDigest,
                   fileDigest |-> FileDigest(d, f.path), lastSeen |-> sha, state |-> "open"]
  <1>1. f.path \in Paths /\ f.defect \in Defects /\ f.place \in Spots
    BY DEF AnyFinding
  <1>2. FileDigest(d, f.path) \in AnyFileDigest /\ NoDigest \in AnyRegionDigest /\ OffHunk \in Spots
    BY <1>1, FileMeasures DEF AnyRegionDigest, Spots
  <1>3. e \in AnyEntry
    BY <1>1, <1>2 DEF AnyEntry
  <1>4. /\ e.path = f.path /\ e.defect = f.defect /\ e.fileDigest = FileDigest(d, f.path) /\ e.lastSeen = sha
        /\ e.state = "open"
    OBVIOUS
  <1>5. Fresh(f, d, sha) = Stamp(e, d, f.place)
    BY DEF Fresh
  <1> HIDE DEF e
  <1> QED
    BY <1>1, <1>3, <1>4, <1>5, Stamps DEF IsOpen

(* A finding raised again is open and measured anew. *)
LEMMA Repeats ==
  ASSUME LedgerAssumption, NEW d \in AnyDiff, NEW e \in AnyEntry, NEW f \in AnyFinding, NEW sha \in Nat
  PROVE  /\ Repeat(e, f, d, sha) \in AnyEntry
         /\ Repeat(e, f, d, sha).path = e.path /\ Repeat(e, f, d, sha).defect = e.defect
         /\ Repeat(e, f, d, sha).fileDigest = FileDigest(d, e.path) /\ Repeat(e, f, d, sha).lastSeen = sha
         /\ Repeat(e, f, d, sha).state = e.state
  <1> DEFINE r == [e EXCEPT !.place = f.place, !.lastSeen = sha, !.fileDigest = FileDigest(d, e.path)]
  <1>1. f.place \in Spots /\ e.path \in Paths
    BY DEF AnyFinding, AnyEntry
  <1>2. FileDigest(d, e.path) \in AnyFileDigest
    BY <1>1, FileMeasures
  <1>3. /\ r \in AnyEntry /\ r.path = e.path /\ r.defect = e.defect /\ r.fileDigest = FileDigest(d, e.path)
        /\ r.lastSeen = sha /\ r.state = e.state
    BY <1>1, <1>2 DEF AnyEntry
  <1>4. Repeat(e, f, d, sha) = Stamp(r, d, f.place)
    BY DEF Repeat
  <1> HIDE DEF r
  <1> QED
    BY <1>1, <1>3, <1>4, Stamps

(* What becomes of an open entry the review is silent about. *)
LEMMA Silences ==
  ASSUME LedgerAssumption, NEW d \in AnyDiff, NEW e \in AnyEntry, IsOpen(e), NEW rewritten \in BOOLEAN,
         NEW land \in [Spots -> Spots]
  PROVE  LET r == Silent(e, d, rewritten, land)
             current == FileDigest(d, e.path)
         IN  /\ r \in AnyEntry /\ r.path = e.path /\ r.defect = e.defect /\ r.lastSeen = e.lastSeen
             /\ r.state \in {"open", "fixed", "reverted"}
             /\ r.state = "reverted" => current = NoDigest
             /\ r.state = "fixed" => ~rewritten /\ current # e.fileDigest /\ (current = NoDigest => e.fileDigest = NoDigest)
             /\ r.state = "open" => r.fileDigest = current \/ (r.fileDigest = e.fileDigest /\ current = NoDigest)
  <1> DEFINE current == FileDigest(d, e.path)
             keep == IF current = NoDigest THEN e.fileDigest ELSE current
             r == Silent(e, d, rewritten, land)
  <1>1. e.path \in Paths /\ e.place \in Spots /\ land[e.place] \in Spots /\ e.state = "open"
    BY DEF AnyEntry, IsOpen
  <1>2. current \in AnyFileDigest /\ keep \in AnyFileDigest
    BY <1>1, FileMeasures DEF AnyEntry
  <1> HIDE DEF current
  <1>3. CASE rewritten
    <2> DEFINE m == [e EXCEPT !.fileDigest = keep]
    <2>1. /\ m \in AnyEntry /\ m.path = e.path /\ m.defect = e.defect /\ m.fileDigest = keep
          /\ m.lastSeen = e.lastSeen /\ m.state = e.state
      BY <1>2 DEF AnyEntry
    <2>2. r = Stamp(m, d, land[e.place])
      BY <1>3 DEF Silent, Restamp, current
    <2> HIDE DEF m
    <2>3. /\ r \in AnyEntry /\ r.path = m.path /\ r.defect = m.defect /\ r.fileDigest = m.fileDigest
          /\ r.lastSeen = m.lastSeen /\ r.state = m.state
      BY <1>1, <2>1, <2>2, Stamps
    <2> HIDE DEF r
    <2>4. r.fileDigest = current \/ (r.fileDigest = e.fileDigest /\ current = NoDigest)
      BY <2>1, <2>3
    <2> QED
      BY <1>1, <2>1, <2>3, <2>4 DEF r, current
  <1>4. CASE ~rewritten /\ current = NoDigest /\ e.fileDigest # NoDigest
    <2>1. r = [e EXCEPT !.state = "reverted"]
      BY <1>4 DEF Silent, current
    <2> QED
      BY <1>4, <2>1 DEF AnyEntry, current
  <1>5. CASE ~rewritten /\ ~(current = NoDigest /\ e.fileDigest # NoDigest) /\ current = e.fileDigest
    <2>1. r = e
      BY <1>5 DEF Silent, current
    <2> QED
      BY <1>1, <1>5, <2>1 DEF current
  <1>6. CASE ~rewritten /\ ~(current = NoDigest /\ e.fileDigest # NoDigest) /\ current # e.fileDigest /\ RegionHeld(e, d)
    <2>1. r = [e EXCEPT !.fileDigest = current]
      BY <1>6 DEF Silent, current
    <2> QED
      BY <1>1, <1>2, <1>6, <2>1 DEF AnyEntry, current
  <1>7. CASE ~rewritten /\ ~(current = NoDigest /\ e.fileDigest # NoDigest) /\ current # e.fileDigest /\ ~RegionHeld(e, d)
    <2>1. r = [e EXCEPT !.state = "fixed"]
      BY <1>7 DEF Silent, current
    <2> QED
      BY <1>7, <2>1 DEF AnyEntry, current
  <1> QED
    BY <1>3, <1>4, <1>5, <1>6, <1>7

(* What becomes of any entry. *)
LEMMA Folds ==
  ASSUME LedgerAssumption, NEW d \in AnyDiff, NEW e \in AnyEntry, NEW findings \in SUBSET AnyFinding,
         NEW sha \in Nat, NEW rewritten \in BOOLEAN, NEW land \in [Spots -> Spots]
  PROVE  LET r == Folded(e, findings, d, sha, rewritten, land)
             current == FileDigest(d, e.path)
         IN  /\ r \in AnyEntry /\ r.path = e.path /\ r.defect = e.defect
             /\ r.lastSeen = e.lastSeen \/ r.lastSeen = sha
             /\ ~IsOpen(e) => r = e
             /\ IsOpen(e) => r.state \in {"open", "fixed", "reverted"}
             /\ IsOpen(e) /\ r.state = "reverted" => current = NoDigest
             /\ IsOpen(e) /\ r.state = "fixed" =>
                  /\ ~rewritten /\ current # e.fileDigest /\ (current = NoDigest => e.fileDigest = NoDigest)
                  /\ r.lastSeen = e.lastSeen
             /\ IsOpen(r) =>
                  /\ IsOpen(e)
                  /\ \/ r.fileDigest = current
                     \/ r.fileDigest = e.fileDigest /\ current = NoDigest /\ r.lastSeen = e.lastSeen
             /\ IsOpen(e) /\ (\E f \in findings : SameFinding(e, f)) => IsOpen(r)
  <1> DEFINE hits == {f \in findings : SameFinding(e, f)}
             r == Folded(e, findings, d, sha, rewritten, land)
  <1>1. CASE ~IsOpen(e)
    <2>1. r = e
      BY <1>1 DEF Folded
    <2> QED
      BY <1>1, <2>1 DEF IsOpen
  <1>2. CASE IsOpen(e) /\ hits # {}
    <2> DEFINE f == CHOOSE g \in hits : TRUE
    <2>1. f \in AnyFinding
      BY <1>2
    <2>2. r = Repeat(e, f, d, sha)
      BY <1>2 DEF Folded
    <2> HIDE DEF f
    <2> QED
      BY <1>2, <2>1, <2>2, Repeats DEF IsOpen
  <1>3. CASE IsOpen(e) /\ hits = {}
    <2>1. r = Silent(e, d, rewritten, land)
      BY <1>3 DEF Folded
    <2> HIDE DEF r
    <2> QED
      BY <1>3, <2>1, Silences DEF r, IsOpen
  <1> QED
    BY <1>1, <1>2, <1>3

(* The record keeps whatever is open, and gains nothing by being trimmed. *)
LEMMA Trims ==
  ASSUME LedgerAssumption, NEW entries, IsFiniteSet(entries)
  PROVE  /\ Trim(entries) \subseteq entries /\ {e \in entries : IsOpen(e)} \subseteq Trim(entries)
         /\ Trim(entries) = entries \/ Cardinality(Trim(entries)) >= MaxEntries
  <1> DEFINE open == {e \in entries : IsOpen(e)}
             closed == entries \ open
             room == IF Cardinality(open) < MaxEntries THEN MaxEntries - Cardinality(open) ELSE 0
  <1>1. CASE Cardinality(entries) <= MaxEntries
    BY <1>1 DEF Trim
  <1>2. CASE ~(Cardinality(entries) <= MaxEntries)
    <2>1. /\ IsFiniteSet(open) /\ IsFiniteSet(closed) /\ Cardinality(open) \in Nat /\ Cardinality(closed) \in Nat
          /\ Cardinality(entries) \in Nat /\ MaxEntries \in Nat
      BY FS_Subset, FS_CardinalityType DEF LedgerAssumption
    <2>2. Cardinality(entries) = Cardinality(open) + Cardinality(closed)
      <3>1. open \cup closed = entries /\ open \cap closed = {}
        OBVIOUS
      <3> HIDE DEF open, closed
      <3> QED
        <4>1. Cardinality(open \cup closed)
                = Cardinality(open) + Cardinality(closed) - Cardinality(open \cap closed)
          BY <2>1, FS_Union
        <4>2. Cardinality(open \cap closed) = 0
          BY <3>1, FS_EmptySet
        <4> QED
          <5>1. Cardinality(entries) = Cardinality(open \cup closed)
            BY <3>1, Zenon
          <5> QED
            BY <2>1, <4>1, <4>2, <5>1
    <2>3. room \in Nat /\ room <= Cardinality(closed) /\ Cardinality(open) + room >= MaxEntries
      <3> HIDE DEF open, closed
      <3> QED
        BY <1>2, <2>1, <2>2
    <2>4. \E kept \in SUBSET closed : Cardinality(kept) = room
      <3> HIDE DEF open, closed, room
      <3>1. PICK f \in Bijection(1..Cardinality(closed), closed) : TRUE
        BY <2>1, FS_CardinalityType DEF ExistsBijection
      <3> DEFINE kept == {f[n] : n \in 1..room}
                 g == [n \in 1..room |-> f[n]]
      <3>2. 1..room \subseteq 1..Cardinality(closed)
        BY <2>1, <2>3
      <3>3. kept \subseteq closed
        BY <3>1, <3>2 DEF Bijection, Injection
      <3>4. g \in Bijection(1..room, kept)
        BY <3>1, <3>2 DEF Bijection, Injection, Surjection, IsInjective
      <3>5. Cardinality(kept) = room
        BY <2>3, <3>4, FS_CountingElements DEF ExistsBijection
      <3> QED
        BY <3>3, <3>5
    <2> DEFINE kept == CHOOSE k \in SUBSET closed : Cardinality(k) = room
    <2>5. kept \subseteq closed /\ Cardinality(kept) = room
      BY <2>4
    <2>6. Trim(entries) = open \cup kept
      BY <1>2 DEF Trim
    <2> HIDE DEF kept
    <2>7. IsFiniteSet(kept) /\ open \cap kept = {}
      BY <2>1, <2>5, FS_Subset
    <2>8. Cardinality(open \cup kept) = Cardinality(open) + room
      <3> HIDE DEF open, closed, room
      <3> QED
        <4>1. Cardinality(open \cup kept) = Cardinality(open) + Cardinality(kept) - Cardinality(open \cap kept)
          BY <2>1, <2>7, FS_Union
        <4>2. Cardinality(open \cap kept) = 0
          BY <2>7, FS_EmptySet
        <4> QED
          BY <2>1, <2>3, <2>5, <4>1, <4>2
    <2> QED
      BY <2>3, <2>5, <2>6, <2>8
  <1> QED
    BY <1>1, <1>2

(* The values of a function on a finite set are finitely many. *)
LEMMA FiniteImage ==
  ASSUME NEW S, IsFiniteSet(S), NEW f, f = [x \in S |-> f[x]]
  PROVE  IsFiniteSet({f[x] : x \in S})
  <1>1. f \in Surjection(S, {f[x] : x \in S})
    BY DEF Surjection
  <1> QED
    BY <1>1, FS_Surjection

-----------------------------------------------------------------------------
(* What a review makes of a ledger. *)

(* No finding is open twice, and none under the name of a file not renamed. *)
Unique(l) == \A e1, e2 \in Open(l) : SameDefect(e1, e2) => e1 = e2
Located(l, d) == \A e \in Open(l) : e.path[2] = 1 => e.path[1] \in d.renamed

(* A ledger a review has read, and what it has found in its diff. *)
Readable(prior, findings, d, sha, base, land) ==
  /\ prior \in AnyLedger /\ IsFiniteSet(prior.entries) /\ Unique(prior) /\ Located(prior, d)
  /\ d \in AnyDiff /\ Reported(findings, d) /\ sha \in Nat /\ base \in AnyBase /\ land \in [Spots -> Spots]

(* What becomes of an entry of it. *)
Outcome(e, prior, findings, d, sha, base, land) ==
  Folded(Migrate(e, d), findings, d, sha, HistoryRewritten(prior, base), land)

(* The outcome of one entry. *)
LEMMA Outcomes ==
  ASSUME LedgerAssumption, NEW prior, NEW findings, NEW d, NEW sha, NEW base, NEW land,
         Readable(prior, findings, d, sha, base, land), NEW e \in prior.entries
  PROVE  LET r == Outcome(e, prior, findings, d, sha, base, land)
             path == PathOf(d, e.path[1])
             current == FileDigest(d, path)
         IN  /\ e \in AnyEntry /\ r \in AnyEntry /\ SameDefect(e, r)
             /\ r.lastSeen = e.lastSeen \/ r.lastSeen = sha
             /\ ~IsOpen(e) => r = e
             /\ IsOpen(e) => r.path = path /\ r.state \in {"open", "fixed", "reverted"}
             /\ IsOpen(e) /\ r.state = "reverted" => current = NoDigest
             /\ IsOpen(e) /\ r.state = "fixed" =>
                  /\ ~HistoryRewritten(prior, base) /\ current # e.fileDigest
                  /\ current = NoDigest => e.fileDigest = NoDigest
                  /\ r.lastSeen = e.lastSeen
             /\ IsOpen(r) =>
                  /\ IsOpen(e)
                  /\ \/ r.fileDigest = current
                     \/ r.fileDigest = e.fileDigest /\ current = NoDigest /\ r.lastSeen = e.lastSeen
  <1> DEFINE m == Migrate(e, d)
             r == Outcome(e, prior, findings, d, sha, base, land)
  <1>1. /\ e \in AnyEntry /\ d \in AnyDiff /\ findings \in SUBSET AnyFinding /\ sha \in Nat
        /\ land \in [Spots -> Spots] /\ HistoryRewritten(prior, base) \in BOOLEAN
    BY DEF Readable, AnyLedger, Reported, HistoryRewritten
  <1>2. /\ m \in AnyEntry /\ m.path[1] = e.path[1] /\ m.defect = e.defect /\ m.fileDigest = e.fileDigest
        /\ m.lastSeen = e.lastSeen /\ m.state = e.state /\ (~IsOpen(e) => m = e)
        /\ IsOpen(e) => m.path = PathOf(d, e.path[1])
    BY <1>1, Migrates DEF Readable, Located, Open
  <1>3. r = Folded(m, findings, d, sha, HistoryRewritten(prior, base), land)
    BY DEF Outcome
  <1>4. IsOpen(m) <=> IsOpen(e)
    BY <1>2 DEF IsOpen
  <1> HIDE DEF m, r
  <1>5. /\ r \in AnyEntry /\ r.path = m.path /\ r.defect = m.defect
        /\ r.lastSeen = m.lastSeen \/ r.lastSeen = sha
        /\ ~IsOpen(m) => r = m
        /\ IsOpen(m) => r.state \in {"open", "fixed", "reverted"}
        /\ IsOpen(m) /\ r.state = "reverted" => FileDigest(d, m.path) = NoDigest
        /\ IsOpen(m) /\ r.state = "fixed" =>
             /\ ~HistoryRewritten(prior, base) /\ FileDigest(d, m.path) # m.fileDigest
             /\ FileDigest(d, m.path) = NoDigest => m.fileDigest = NoDigest
             /\ r.lastSeen = m.lastSeen
        /\ IsOpen(r) =>
             /\ IsOpen(m)
             /\ \/ r.fileDigest = FileDigest(d, m.path)
                \/ r.fileDigest = m.fileDigest /\ FileDigest(d, m.path) = NoDigest /\ r.lastSeen = m.lastSeen
    BY <1>1, <1>2, <1>3, Folds
  <1> QED
    BY <1>1, <1>2, <1>4, <1>5 DEF SameDefect, r

(* The ledger of after the review. *)
LEMMA Reconciles ==
  ASSUME LedgerAssumption, NEW prior, NEW findings, NEW d, NEW sha, NEW base, NEW land,
         Readable(prior, findings, d, sha, base, land)
  PROVE  LET l == Reconcile(prior, findings, d, sha, base, land)
             r(e) == Outcome(e, prior, findings, d, sha, base, land)
         IN  /\ l \in AnyLedger /\ IsFiniteSet(l.entries) /\ Unique(l) /\ Located(l, d)
             /\ l.lastBase = base /\ l.reviewsUsed = prior.reviewsUsed + 1
             /\ \A e2 \in l.entries : \/ \E f \in findings : e2 = Fresh(f, d, sha)
                                      \/ \E e \in prior.entries : e2 = r(e)
             /\ \A e \in Open(prior) : r(e) \in l.entries \/ (~IsOpen(r(e)) /\ Full(l))
  <1> DEFINE l == Reconcile(prior, findings, d, sha, base, land)
             r(e) == Outcome(e, prior, findings, d, sha, base, land)
             moved == {Migrate(e, d) : e \in prior.entries}
             next == {r(e) : e \in prior.entries}
             claimed(f) == \E e \in moved : IsOpen(e) /\ SameFinding(e, f)
             fresh == {Fresh(f, d, sha) : f \in {f \in findings : ~claimed(f)}}
             all == next \cup fresh
  <1>1. l = [entries |-> Trim(all), reviewsUsed |-> prior.reviewsUsed + 1, lastBase |-> base]
    <2>1. next = {Folded(e, findings, d, sha, HistoryRewritten(prior, base), land) : e \in moved}
      BY DEF Outcome
    <2> HIDE DEF next
    <2> QED
      BY <2>1 DEF Reconcile
  <1>2. /\ d \in AnyDiff /\ findings \subseteq AnyFinding /\ IsFiniteSet(findings) /\ sha \in Nat /\ base \in AnyBase
        /\ prior.entries \subseteq AnyEntry /\ prior.reviewsUsed \in Nat /\ IsFiniteSet(prior.entries)
    BY DEF Readable, Reported, AnyLedger
  <1>3. \A e \in prior.entries : r(e) \in AnyEntry
    BY Outcomes
  <1>4. \A f \in findings : Fresh(f, d, sha) \in AnyEntry
    BY <1>2, Freshly
  <1>5. IsFiniteSet(all)
    <2>1. IsFiniteSet(next)
      <3> DEFINE g == [e \in prior.entries |-> r(e)]
      <3>1. next = {g[e] : e \in prior.entries}
        OBVIOUS
      <3>2. g = [e \in prior.entries |-> g[e]]
        OBVIOUS
      <3> HIDE DEF next, g
      <3> QED
        BY <1>2, <3>1, <3>2, FiniteImage
    <2>2. IsFiniteSet(fresh)
      <3> DEFINE new == {f \in findings : ~claimed(f)}
                 g == [f \in new |-> Fresh(f, d, sha)]
      <3>1. IsFiniteSet(new)
        BY <1>2, FS_Subset
      <3>2. fresh = {g[f] : f \in new}
        OBVIOUS
      <3>3. g = [f \in new |-> g[f]]
        OBVIOUS
      <3> HIDE DEF fresh, g, new
      <3> QED
        BY <3>1, <3>2, <3>3, FiniteImage
    <2> HIDE DEF next, fresh
    <2> QED
      BY <2>1, <2>2, FS_Union
  <1>6. all \subseteq AnyEntry
    BY <1>3, <1>4
  <1>7. /\ Trim(all) \subseteq all /\ {e \in all : IsOpen(e)} \subseteq Trim(all)
        /\ Trim(all) = all \/ Cardinality(Trim(all)) >= MaxEntries
    <2> HIDE DEF all
    <2> QED
      BY <1>5, Trims
  <1>8. l \in AnyLedger /\ IsFiniteSet(l.entries) /\ l.lastBase = base /\ l.reviewsUsed = prior.reviewsUsed + 1
    <2> HIDE DEF l, all
    <2>1. Trim(all) \in SUBSET AnyEntry /\ IsFiniteSet(Trim(all))
      BY <1>5, <1>6, <1>7, FS_Subset
    <2> QED
      BY <1>1, <1>2, <2>1 DEF AnyLedger
  <1>9. l.entries = Trim(all)
    <2> HIDE DEF l, all
    <2> QED
      BY <1>1
  <1>10. ASSUME NEW e \in Open(prior) PROVE r(e) \in l.entries \/ (~IsOpen(r(e)) /\ Full(l))
    <2>1. r(e) \in all
      BY <1>10 DEF Open
    <2> HIDE DEF l, all, r
    <2> QED
      BY <1>7, <1>9, <2>1 DEF Full
  <1>11. ASSUME NEW e2 \in l.entries
         PROVE  \/ \E f \in findings : e2 = Fresh(f, d, sha) /\ ~claimed(f)
                \/ \E e \in prior.entries : e2 = r(e)
    <2>1. e2 \in all
      <3> HIDE DEF l, all
      <3> QED
        BY <1>7, <1>9, <1>11
    <2> QED
      BY <2>1
  <1>12. \A f \in findings : Fresh(f, d, sha).path = PathOf(d, f.path[1])
                             /\ Fresh(f, d, sha).path = f.path /\ Fresh(f, d, sha).defect = f.defect
    BY <1>2, Freshly DEF Readable, Reported
  <1>13. ASSUME NEW f \in findings, ~claimed(f), NEW e \in prior.entries, IsOpen(r(e))
         PROVE  ~SameDefect(r(e), Fresh(f, d, sha))
    <2>1. IsOpen(e) /\ r(e).path = PathOf(d, e.path[1]) /\ SameDefect(e, r(e)) /\ e \in AnyEntry
      BY <1>13, Outcomes
    <2>2. Migrate(e, d).path = PathOf(d, e.path[1]) /\ Migrate(e, d).defect = e.defect /\ IsOpen(Migrate(e, d))
      BY <1>2, <2>1, Migrates DEF Readable, Located, Open, IsOpen
    <2>3. ~SameFinding(Migrate(e, d), f)
      BY <1>13, <2>2
    <2> HIDE DEF r
    <2> QED
      BY <1>12, <2>1, <2>2, <2>3 DEF SameFinding, SameDefect, PathOf
  <1>14. Unique(l)
    <2> SUFFICES ASSUME NEW e1 \in Open(l), NEW e2 \in Open(l), SameDefect(e1, e2) PROVE e1 = e2
      BY DEF Unique
    <2>1. e1 \in l.entries /\ e2 \in l.entries /\ IsOpen(e1) /\ IsOpen(e2)
      BY DEF Open
    <2> HIDE DEF l
    <2>2. CASE \E f, g \in findings : e1 = Fresh(f, d, sha) /\ e2 = Fresh(g, d, sha)
      <3>1. PICK f \in findings, g \in findings : e1 = Fresh(f, d, sha) /\ e2 = Fresh(g, d, sha)
        BY <2>2
      <3>2. f.path[1] = g.path[1] /\ f.defect = g.defect
        BY <1>12, <3>1 DEF SameDefect
      <3>3. f.path = g.path
        BY <3>2 DEF Readable, Reported
      <3> QED
        BY <3>1, <3>2, <3>3 DEF Readable, Reported
    <2>3. CASE \E a, b \in prior.entries : e1 = r(a) /\ e2 = r(b)
      <3>1. PICK a \in prior.entries, b \in prior.entries : e1 = r(a) /\ e2 = r(b)
        BY <2>3
      <3>2. IsOpen(a) /\ IsOpen(b) /\ SameDefect(a, e1) /\ SameDefect(b, e2)
        BY <2>1, <3>1, Outcomes
      <3>3. a = b
        BY <3>2 DEF Readable, Unique, Open, SameDefect
      <3> QED
        BY <3>1, <3>3
    <2>4. CASE \E f \in findings, e \in prior.entries :
                 /\ ~claimed(f)
                 /\ \/ e1 = Fresh(f, d, sha) /\ e2 = r(e)
                    \/ e2 = Fresh(f, d, sha) /\ e1 = r(e)
      <3>1. PICK f \in findings, e \in prior.entries :
                 /\ ~claimed(f)
                 /\ \/ e1 = Fresh(f, d, sha) /\ e2 = r(e)
                    \/ e2 = Fresh(f, d, sha) /\ e1 = r(e)
        BY <2>4
      <3>2. ~SameDefect(r(e), Fresh(f, d, sha))
        BY <1>13, <2>1, <3>1
      <3> QED
        BY <3>1, <3>2 DEF SameDefect
    <2> QED
      BY <1>11, <2>1, <2>2, <2>3, <2>4
  <1>15. Located(l, d)
    <2> SUFFICES ASSUME NEW e2 \in Open(l), e2.path[2] = 1 PROVE e2.path[1] \in d.renamed
      BY DEF Located
    <2>1. e2 \in l.entries /\ IsOpen(e2)
      BY DEF Open
    <2> HIDE DEF l
    <2>2. \E h : e2.path = PathOf(d, h)
      <3>1. CASE \E f \in findings : e2 = Fresh(f, d, sha)
        BY <1>12, <3>1
      <3>2. CASE \E e \in prior.entries : e2 = r(e)
        BY <2>1, <3>2, Outcomes
      <3> QED
        BY <1>11, <2>1, <3>1, <3>2
    <2> QED
      BY <2>2 DEF PathOf
  <1> HIDE DEF l, r
  <1>16. \A e2 \in l.entries : (\E f \in findings : e2 = Fresh(f, d, sha)) \/ (\E e \in prior.entries : e2 = r(e))
    BY <1>11
  <1> QED
    BY <1>8, <1>10, <1>14, <1>15, <1>16 DEF l, r

(* Whatever a review raises is open on the record of after it. *)
LEMMA Raises ==
  ASSUME LedgerAssumption, NEW prior, NEW findings, NEW d, NEW sha, NEW base, NEW land,
         Readable(prior, findings, d, sha, base, land), NEW f \in findings
  PROVE  \E e \in Open(Reconcile(prior, findings, d, sha, base, land)) : SameFinding(e, f)
  <1> DEFINE moved == {Migrate(e, d) : e \in prior.entries}
             next == {Folded(e, findings, d, sha, HistoryRewritten(prior, base), land) : e \in moved}
             claimed(g) == \E e \in moved : IsOpen(e) /\ SameFinding(e, g)
             fresh == {Fresh(g, d, sha) : g \in {g \in findings : ~claimed(g)}}
             all == next \cup fresh
             l == Reconcile(prior, findings, d, sha, base, land)
  <1>1. l = [entries |-> Trim(all), reviewsUsed |-> prior.reviewsUsed + 1, lastBase |-> base]
    BY DEF Reconcile
  <1>2. /\ d \in AnyDiff /\ findings \in SUBSET AnyFinding /\ IsFiniteSet(findings) /\ sha \in Nat
        /\ land \in [Spots -> Spots] /\ HistoryRewritten(prior, base) \in BOOLEAN
        /\ prior.entries \subseteq AnyEntry /\ IsFiniteSet(prior.entries)
    BY DEF Readable, Reported, AnyLedger, HistoryRewritten
  <1>3. \E e \in all : IsOpen(e) /\ SameFinding(e, f)
    <2>1. CASE claimed(f)
      <3>1. PICK e \in moved : IsOpen(e) /\ SameFinding(e, f)
        BY <2>1
      <3>2. e \in AnyEntry
        BY <1>2, Migrates
      <3> DEFINE r == Folded(e, findings, d, sha, HistoryRewritten(prior, base), land)
      <3>3. IsOpen(r) /\ r.path = e.path /\ r.defect = e.defect
        BY <1>2, <3>1, <3>2, Folds
      <3>4. r \in all
        OBVIOUS
      <3> QED
        BY <3>1, <3>3, <3>4 DEF SameFinding
    <2>2. CASE ~claimed(f)
      <3>1. Fresh(f, d, sha) \in all
        BY <2>2
      <3>2. IsOpen(Fresh(f, d, sha)) /\ SameFinding(Fresh(f, d, sha), f)
        BY <1>2, Freshly DEF SameFinding
      <3> QED
        BY <3>1, <3>2
    <2> QED
      BY <2>1, <2>2
  <1>4. IsFiniteSet(all)
    <2> DEFINE m == [e \in prior.entries |-> Migrate(e, d)]
               n == [e \in moved |-> Folded(e, findings, d, sha, HistoryRewritten(prior, base), land)]
               new == {g \in findings : ~claimed(g)}
               x == [g \in new |-> Fresh(g, d, sha)]
    <2>1. moved = {m[e] : e \in prior.entries} /\ m = [e \in prior.entries |-> m[e]]
      OBVIOUS
    <2>2. next = {n[e] : e \in moved} /\ n = [e \in moved |-> n[e]]
      OBVIOUS
    <2>3. fresh = {x[g] : g \in new} /\ x = [g \in new |-> x[g]]
      OBVIOUS
    <2>4. IsFiniteSet(new)
      BY <1>2, FS_Subset
    <2> HIDE DEF m, n, x, moved, next, fresh, new
    <2>5. IsFiniteSet(moved)
      BY <1>2, <2>1, FiniteImage
    <2>6. IsFiniteSet(next)
      BY <2>2, <2>5, FiniteImage
    <2>7. IsFiniteSet(fresh)
      BY <2>3, <2>4, FiniteImage
    <2> QED
      BY <2>6, <2>7, FS_Union
  <1> HIDE DEF all, l
  <1>5. {e \in all : IsOpen(e)} \subseteq Trim(all)
    BY <1>4, Trims
  <1>6. l.entries = Trim(all)
    BY <1>1
  <1> QED
    BY <1>3, <1>5, <1>6 DEF Open, l

-----------------------------------------------------------------------------
(* The budget, with any number of writers. *)

(* A ledger that counts n reviews or fewer. *)
Charged(l, n) ==
  /\ l = [entries |-> l.entries, reviewsUsed |-> l.reviewsUsed, lastBase |-> l.lastBase]
  /\ l.reviewsUsed \in 0..n

(* A review counts itself when it folds, and is on the page before it saves. *)
UsedInv ==
  /\ posted \in Nat
  /\ review = [i \in Reviewers |-> review[i]]
  /\ Charged(ledger, posted)
  /\ resolve.at = "read" => Charged(resolve.ledger, posted)
  /\ \A i \in Reviewers :
       /\ review[i].at \in {"folded", "posted"} =>
            review[i] = [at |-> review[i].at, known |-> review[i].known, next |-> review[i].next,
                         resolved |-> review[i].resolved, check |-> review[i].check]
       /\ review[i].at = "folded" => Charged(review[i].next, posted + 1)
       /\ review[i].at = "posted" => Charged(review[i].next, posted)

(* A charge stays one, and a review adds one. *)
LEMMA Charges ==
  ASSUME NEW l, NEW n \in Nat, Charged(l, n)
  PROVE  /\ Charged(l, n + 1)
         /\ Charged(DismissAll(l), n)
         /\ \A findings, d, sha, base, land : Charged(Reconcile(l, findings, d, sha, base, land), n + 1)
  <1>1. Charged(l, n + 1)
    BY DEF Charged
  <1>2. Charged(DismissAll(l), n)
    <2> DEFINE es == {IF IsOpen(e) THEN [e EXCEPT !.state = "dismissed"] ELSE e : e \in l.entries}
    <2>1. DismissAll(l) = [l EXCEPT !.entries = es]
      BY DEF DismissAll
    <2> HIDE DEF es
    <2> QED
      BY <2>1 DEF Charged
  <1>3. ASSUME NEW findings, NEW d, NEW sha, NEW base, NEW land
        PROVE  Charged(Reconcile(l, findings, d, sha, base, land), n + 1)
    <2> DEFINE r == Reconcile(l, findings, d, sha, base, land)
    <2>1. \E es : r = [entries |-> es, reviewsUsed |-> l.reviewsUsed + 1, lastBase |-> base]
      BY DEF Reconcile
    <2> HIDE DEF r
    <2> QED
      BY <2>1 DEF Charged, r
  <1> QED
    BY <1>1, <1>2, <1>3

(* Every step keeps the charges. *)
LEMMA NextUsedInv == ASSUME UsedInv, [Next]_vars PROVE UsedInv'
  <1> USE DEF UsedInv
  <1>1. CASE UNCHANGED vars
    BY <1>1 DEF vars
  <1>2. CASE Author
    BY <1>2 DEF Author, Push, Rename, Rebase
  <1>3. ASSUME NEW i \in Reviewers, \E sha, base : ReadDiff(i, sha, base) PROVE UsedInv'
    BY <1>3 DEF ReadDiff
  <1>4. ASSUME NEW i \in Reviewers, Fold(i) PROVE UsedInv'
    <2>1. Charged(EmptyLedger, posted)
      BY DEF Charged, EmptyLedger
    <2>2. PICK prior, known : Charged(prior, posted) /\ FoldInto(i, prior, known)
      BY <1>4, <2>1, Zenon DEF Fold
    <2>3. PICK next, done, check :
            /\ review' = [review EXCEPT ![i] = [at |-> "folded", known |-> known, next |-> next,
                                                resolved |-> done, check |-> check]]
            /\ Charged(next, posted + 1)
      <3>1. PICK land :
              review' = [review EXCEPT ![i] =
                [at |-> "folded", known |-> known,
                 next |-> Reconcile(prior, review[i].findings, review[i].diff, review[i].sha, review[i].base, land),
                 resolved |-> Resolved(prior, review[i].findings, review[i].diff, review[i].sha,
                                       review[i].base, land),
                 check |-> Verdict(Reconcile(prior, review[i].findings, review[i].diff, review[i].sha,
                                             review[i].base, land), review[i].findings)]]
        BY <2>2, Zenon DEF FoldInto
      <3>2. Charged(Reconcile(prior, review[i].findings, review[i].diff, review[i].sha, review[i].base, land),
                    posted + 1)
        BY <2>2, Charges
      <3> QED
        BY <3>1, <3>2
    <2> QED
      BY <1>4, <2>3 DEF Fold
  <1>5. ASSUME NEW i \in Reviewers, Post(i) PROVE UsedInv'
    <2>1. \A l : Charged(l, posted) => Charged(l, posted + 1)
      BY Charges
    <2>2. review'[i] = [at |-> "posted", known |-> review[i].known, next |-> review[i].next,
                        resolved |-> review[i].resolved, check |-> review[i].check]
      BY <1>5 DEF Post
    <2>3. \A j \in Reviewers \ {i} : review'[j] = review[j]
      BY <1>5 DEF Post
    <2>4. posted' = posted + 1 /\ ledger' = ledger /\ resolve' = resolve
          /\ review' = [j \in Reviewers |-> review'[j]]
      BY <1>5 DEF Post
    <2>5. \A l : Charged(l, posted + 1) => Charged(l, posted + 1 + 1)
      BY Charges
    <2>6. review[i].at = "folded"
      BY <1>5 DEF Post
    <2> QED
      BY <2>1, <2>2, <2>3, <2>4, <2>5, <2>6
  <1>6. ASSUME NEW i \in Reviewers, Save(i) \/ Drop(i) PROVE UsedInv'
    <2>1. review' = [review EXCEPT ![i] = Idle] /\ posted' = posted /\ resolve' = resolve
          /\ (ledger' = ledger \/ (review[i].at = "posted" /\ ledger' = review[i].next))
      BY <1>6 DEF Save, Drop
    <2> QED
      <3>1. review'[i].at = "idle" /\ \A j \in Reviewers \ {i} : review'[j] = review[j]
        BY <2>1 DEF Idle
      <3>2. Charged(ledger', posted) /\ review' = [j \in Reviewers |-> review'[j]]
        BY <2>1
      <3> QED
        BY <2>1, <3>1, <3>2
  <1>7. CASE ResolveRead
    BY <1>7 DEF ResolveRead
  <1>8. CASE ResolveSave
    BY <1>8, Charges DEF ResolveSave, Idle
  <1> QED
    BY <1>1, <1>2, <1>3, <1>4, <1>5, <1>6, <1>7, <1>8
    DEF Next, ReviewStep, WebhookReview, CommandReview

(***************************************************************************)
(* reviewsUsed: the budget is charged for reviews on the page only, with   *)
(* any number of writers.                                                  *)
(***************************************************************************)
THEOREM PostedIsUsed == Spec => []UsedOnlyIfPosted
  <1>1. Init => UsedInv
    BY DEF Init, UsedInv, Charged, EmptyLedger, Idle
  <1>2. UsedInv /\ [Next]_vars => UsedInv'
    BY NextUsedInv
  <1>3. UsedInv => UsedOnlyIfPosted
    BY DEF UsedInv, Charged, UsedOnlyIfPosted
  <1> QED
    BY <1>1, <1>2, <1>3, PTL DEF Spec

-----------------------------------------------------------------------------
(* What the record knows of the code. *)

(* The digest of an open entry is of the text its file has in diff d, cut   *)
(* against a base no older than the ledger's: or the file was touched since *)
(* the entry was last seen, or it was off the diff.                        *)
Measured(l, d, touches) ==
  \A e \in Open(l) :
    LET f == e.path[1]
    IN  \/ \E p \in Places : touches[f][p] > e.lastSeen
        \/ e.fileDigest = NoDigest
        \/ /\ e.fileDigest[2] = d.text[f]
           /\ HasHunks(d, f) => /\ e.fileDigest[1] <= d.base
                                /\ l.lastBase # NoBase => l.lastBase[1] <= e.fileDigest[1]
           /\ ~HasHunks(d, f) => e.fileDigest[1] = 0 /\ f \in d.renamed

(* A ledger of the reviews of heads up to h, and of diffs up to d. *)
Recorded(l, d, touches, h) ==
  /\ l \in AnyLedger /\ IsFiniteSet(l.entries) /\ Unique(l) /\ Located(l, d) /\ Measured(l, d, touches)
  /\ \A e \in l.entries : e.lastSeen <= h

(* Diff d2 is one the pull request had after d, the diff of its head h. *)
Later(d, h, d2, touches) ==
  /\ d.base <= d2.base /\ d.renamed \subseteq d2.renamed
  /\ \A f \in Files : d.text[f] = d2.text[f] \/ \E p \in Places : touches[f][p] > h

Touches == [Files -> [Places -> Nat]]
NoFewer(t1, t2) == \A f \in Files, p \in Places : t1[f][p] <= t2[f][p]

(* A record stays true of later diffs. *)
LEMMA Drifts ==
  ASSUME NEW l, NEW d \in AnyDiff, NEW d2 \in AnyDiff, NEW t \in Touches, NEW h \in Nat, NEW h2 \in Nat,
         Recorded(l, d, t, h), Later(d, h, d2, t), h <= h2
  PROVE  Recorded(l, d2, t, h2)
  <1>1. \A e \in l.entries : e.lastSeen \in Nat /\ e.lastSeen <= h /\ e.path[1] \in Files /\ e.path[2] \in {0, 1}
                             /\ e.fileDigest \in AnyFileDigest
    BY DEF Recorded, AnyLedger, AnyEntry, Paths
  <1>2. d.base \in Nat /\ d2.base \in Nat
    BY DEF AnyDiff
  <1>3. \A e \in l.entries : e.lastSeen <= h2
    BY <1>1
  <1>4. Located(l, d2)
    BY DEF Recorded, Located, Later
  <1>5. ASSUME NEW e \in Open(l)
        PROVE  LET f == e.path[1]
               IN  \/ \E p \in Places : t[f][p] > e.lastSeen
                   \/ e.fileDigest = NoDigest
                   \/ /\ e.fileDigest[2] = d2.text[f]
                      /\ HasHunks(d2, f) => /\ e.fileDigest[1] <= d2.base
                                            /\ l.lastBase # NoBase => l.lastBase[1] <= e.fileDigest[1]
                      /\ ~HasHunks(d2, f) => e.fileDigest[1] = 0 /\ f \in d2.renamed
    <2> DEFINE f == e.path[1]
    <2>1. f \in Files /\ e.lastSeen \in Nat /\ e.lastSeen <= h /\ e.fileDigest \in AnyFileDigest
      BY <1>1 DEF Open
    <2>2. CASE \E p \in Places : t[f][p] > h
      <3>1. PICK p \in Places : t[f][p] > h
        BY <2>2
      <3>2. t[f][p] \in Nat
        BY <2>1 DEF Touches
      <3>3. t[f][p] > e.lastSeen
        BY <2>1, <3>1, <3>2
      <3> QED
        BY <3>3
    <2>3. CASE d.text[f] = d2.text[f]
      <3>1. HasHunks(d, f) <=> HasHunks(d2, f)
        BY <2>3 DEF HasHunks
      <3>2. CASE (\E p \in Places : t[f][p] > e.lastSeen) \/ e.fileDigest = NoDigest
        BY <3>2
      <3>3. CASE ~(\E p \in Places : t[f][p] > e.lastSeen) /\ e.fileDigest # NoDigest
        <4>1. /\ e.fileDigest[2] = d.text[f]
              /\ HasHunks(d, f) => /\ e.fileDigest[1] <= d.base
                                   /\ l.lastBase # NoBase => l.lastBase[1] <= e.fileDigest[1]
              /\ ~HasHunks(d, f) => e.fileDigest[1] = 0 /\ f \in d.renamed
          BY <3>3 DEF Recorded, Measured
        <4>2. e.fileDigest[1] \in Nat
          BY <2>1, <3>3 DEF AnyFileDigest
        <4> HIDE DEF f
        <4> QED
          BY <1>2, <2>3, <3>1, <4>1, <4>2 DEF Later, f
      <3> QED
        BY <3>2, <3>3
    <2> QED
      BY <2>1, <2>2, <2>3 DEF Later
  <1>6. Measured(l, d2, t)
    BY <1>5 DEF Measured
  <1> QED
    BY <1>3, <1>4, <1>6 DEF Recorded

(* What was touched stays so. *)
LEMMA TouchesGrow ==
  ASSUME NEW l, NEW d, NEW t \in Touches, NEW t2 \in Touches, NEW h, Recorded(l, d, t, h), NoFewer(t, t2)
  PROVE  Recorded(l, d, t2, h)
  <1>1. ASSUME NEW e \in Open(l), \E p \in Places : t[e.path[1]][p] > e.lastSeen
        PROVE  \E p \in Places : t2[e.path[1]][p] > e.lastSeen
    <2>1. e.path[1] \in Files /\ e.lastSeen \in Nat
      BY <1>1 DEF Recorded, Open, AnyLedger, AnyEntry, Paths
    <2>2. PICK p \in Places : t[e.path[1]][p] > e.lastSeen
      BY <1>1
    <2>3. t[e.path[1]][p] \in Nat /\ t2[e.path[1]][p] \in Nat /\ t[e.path[1]][p] <= t2[e.path[1]][p]
      BY <2>1 DEF Touches, NoFewer
    <2> QED
      BY <2>1, <2>2, <2>3
  <1>2. Measured(l, d, t2)
    BY <1>1, Zenon DEF Recorded, Measured
  <1> QED
    BY <1>2 DEF Recorded

(* Later than later is later. *)
LEMMA LaterStill ==
  ASSUME NEW d1 \in AnyDiff, NEW d2 \in AnyDiff, NEW d3 \in AnyDiff, NEW h1 \in Nat, NEW h2 \in Nat, h1 <= h2,
         NEW t2 \in Touches, NEW t3 \in Touches, NoFewer(t2, t3),
         Later(d1, h1, d2, t2), Later(d2, h2, d3, t3)
  PROVE  Later(d1, h1, d3, t3)
  <1>1. d1.base <= d3.base /\ d1.renamed \subseteq d3.renamed
    BY DEF Later, AnyDiff
  <1>2. ASSUME NEW f \in Files PROVE d1.text[f] = d3.text[f] \/ \E p \in Places : t3[f][p] > h1
    <2>1. \A p \in Places : t2[f][p] \in Nat /\ t3[f][p] \in Nat /\ t2[f][p] <= t3[f][p]
      BY DEF Touches, NoFewer
    <2>2. CASE \E p \in Places : t2[f][p] > h1
      BY <2>1, <2>2
    <2>3. CASE \E p \in Places : t3[f][p] > h2
      BY <2>1, <2>3
    <2>4. CASE d1.text[f] = d2.text[f] /\ d2.text[f] = d3.text[f]
      BY <2>4
    <2> QED
      BY <2>2, <2>3, <2>4 DEF Later
  <1> QED
    BY <1>1, <1>2 DEF Later

-----------------------------------------------------------------------------
(* A review folds what it found into a record. *)

(* What is measured in diff d is what the diff has. *)
LEMMA MeasuredNow ==
  ASSUME NEW d \in AnyDiff, NEW f \in Files
  PROVE  LET c == FileDigest(d, PathOf(d, f))
         IN  /\ c = NoDigest <=> ~HasHunks(d, f) /\ f \notin d.renamed
             /\ c # NoDigest => c = <<IF HasHunks(d, f) THEN d.base ELSE 0, d.text[f]>>
  <1>1. PathOf(d, f) \in Paths /\ PathOf(d, f)[1] = f
    BY DEF PathOf, Paths
  <1>2. InDiff(d, PathOf(d, f)) <=> HasHunks(d, f) \/ f \in d.renamed
    BY <1>1 DEF InDiff
  <1> QED
    BY <1>1, <1>2, FileMeasures

(* The entry that a closed one was. *)
LEMMA ClosedWas ==
  ASSUME LedgerAssumption, NEW prior, NEW findings, NEW d, NEW sha, NEW base, NEW land,
         Readable(prior, findings, d, sha, base, land),
         NEW e \in Open(prior), NEW e2 \in Reconcile(prior, findings, d, sha, base, land).entries,
         SameDefect(e, e2), e2.state \in {"fixed", "reverted"},
         e2 \notin prior.entries
  PROVE  e2 = Outcome(e, prior, findings, d, sha, base, land)
  <1>1. ~IsOpen(e2)
    BY DEF IsOpen
  <1>2. \A f \in findings : IsOpen(Fresh(f, d, sha))
    BY Freshly DEF Readable, Reported
  <1>3. PICK e0 \in prior.entries : e2 = Outcome(e0, prior, findings, d, sha, base, land)
    BY <1>1, <1>2, Reconciles
  <1>4. IsOpen(e0) /\ SameDefect(e0, e2)
    BY <1>3, Outcomes
  <1>5. e0 = e
    BY <1>4 DEF Readable, Unique, Open, SameDefect
  <1> QED
    BY <1>3, <1>5

(* The record of after a review, and what it says of what was open. *)
Answered(l, next, done) ==
  \A e \in Open(l) :
    \/ \E e2 \in Open(next) : SameDefect(e, e2)
    \/ \E e2 \in done : SameDefect(e, e2) /\ (e2 \in next.entries \/ Full(next))

Cleared(l, next, done) ==
  /\ Open(next) = {}
  /\ \A e \in Open(l) : \E e2 \in done : SameDefect(e, e2) /\ e2.state \in {"fixed", "reverted"}

(* What a review folds into a record is a record, and forgets nothing. *)
LEMMA FoldRecords ==
  ASSUME LedgerAssumption, NEW prior, NEW findings, NEW d, NEW sha, NEW base, NEW land,
         Readable(prior, findings, d, sha, base, land),
         NEW t \in Touches, NEW h \in Nat, Recorded(prior, d, t, h), sha <= h,
         base # NoBase => base[1] <= d.base
  PROVE  LET l == Reconcile(prior, findings, d, sha, base, land)
             done == Resolved(prior, findings, d, sha, base, land)
         IN  /\ Recorded(l, d, t, h) /\ Answered(prior, l, done)
             /\ Verdict(l, findings) = "success" => Cleared(prior, l, done)
  <1> DEFINE l == Reconcile(prior, findings, d, sha, base, land)
             done == Resolved(prior, findings, d, sha, base, land)
             r(e) == Outcome(e, prior, findings, d, sha, base, land)
  <1>1. /\ l \in AnyLedger /\ IsFiniteSet(l.entries) /\ Unique(l) /\ Located(l, d) /\ l.lastBase = base
        /\ \A e2 \in l.entries : (\E f \in findings : e2 = Fresh(f, d, sha)) \/ (\E e \in prior.entries : e2 = r(e))
        /\ \A e \in Open(prior) : r(e) \in l.entries \/ (~IsOpen(r(e)) /\ Full(l))
    BY Reconciles
  <1>2. /\ d \in AnyDiff /\ d.base \in Nat /\ sha \in Nat /\ findings \subseteq AnyFinding
        /\ \A f \in findings : f.path = PathOf(d, f.path[1]) /\ f.path[1] \in Files
    BY DEF Readable, Reported, AnyDiff, AnyFinding, Paths
  <1>3. \A f \in findings : /\ Fresh(f, d, sha).path = PathOf(d, f.path[1]) /\ Fresh(f, d, sha).path[1] = f.path[1]
                            /\ Fresh(f, d, sha).fileDigest = FileDigest(d, PathOf(d, f.path[1]))
                            /\ Fresh(f, d, sha).lastSeen = sha
    BY <1>2, Freshly
  <1>4. \A e \in prior.entries : e \in AnyEntry /\ e.path[1] \in Files /\ e.lastSeen <= h /\ e.lastSeen \in Nat
    BY DEF Recorded, AnyLedger, AnyEntry, Paths
  <1>5. \A e2 \in l.entries : e2.lastSeen <= h
    <2>1. \A e \in prior.entries : r(e).lastSeen = e.lastSeen \/ r(e).lastSeen = sha
      BY Outcomes
    <2> HIDE DEF l, r
    <2> QED
      BY <1>1, <1>3, <1>4, <2>1
  <1>6. ASSUME NEW e2 \in Open(l)
        PROVE  LET f == e2.path[1]
               IN  \/ \E p \in Places : t[f][p] > e2.lastSeen
                   \/ e2.fileDigest = NoDigest
                   \/ /\ e2.fileDigest[2] = d.text[f]
                      /\ HasHunks(d, f) => e2.fileDigest[1] <= d.base /\ (base # NoBase => base[1] <= e2.fileDigest[1])
                      /\ ~HasHunks(d, f) => e2.fileDigest[1] = 0 /\ f \in d.renamed
    <2>1. e2 \in l.entries /\ IsOpen(e2)
      BY DEF Open
    <2> HIDE DEF l
    <2>2. CASE e2.path[1] \in Files /\ e2.fileDigest = FileDigest(d, PathOf(d, e2.path[1]))
      <3> DEFINE f == e2.path[1]
      <3>1. CASE e2.fileDigest # NoDigest
        <4>1. e2.fileDigest = <<IF HasHunks(d, f) THEN d.base ELSE 0, d.text[f]>>
              /\ (HasHunks(d, f) \/ f \in d.renamed)
          BY <1>2, <2>2, <3>1, MeasuredNow
        <4> HIDE DEF f
        <4>2. e2.fileDigest[2] = d.text[f] /\ e2.fileDigest[1] = IF HasHunks(d, f) THEN d.base ELSE 0
          BY <4>1
        <4> QED
          BY <1>2, <4>1, <4>2 DEF f
      <3> QED
        BY <3>1
    <2>3. CASE \E f \in findings : e2 = Fresh(f, d, sha)
      BY <1>2, <1>3, <2>2, <2>3
    <2>4. ASSUME NEW e \in prior.entries, e2 = r(e) PROVE e2.path[1] \in Files /\
             \/ e2.fileDigest = FileDigest(d, PathOf(d, e2.path[1]))
             \/ e2.fileDigest = NoDigest
             \/ \E p \in Places : t[e2.path[1]][p] > e2.lastSeen
      <3> DEFINE f == e.path[1]
      <3>1. /\ IsOpen(e) /\ e2.path[1] = f /\ f \in Files
            /\ \/ e2.fileDigest = FileDigest(d, PathOf(d, f))
               \/ e2.fileDigest = e.fileDigest /\ FileDigest(d, PathOf(d, f)) = NoDigest /\ e2.lastSeen = e.lastSeen
        BY <1>4, <2>1, <2>4, Outcomes DEF SameDefect
      <3>2. CASE e2.fileDigest = e.fileDigest /\ FileDigest(d, PathOf(d, f)) = NoDigest /\ e2.lastSeen = e.lastSeen
        <4>1. ~HasHunks(d, f) /\ f \notin d.renamed
          BY <1>2, <3>1, <3>2, MeasuredNow
        <4>2. e \in Open(prior)
          BY <2>4, <3>1 DEF Open
        <4>3. (\E p \in Places : t[f][p] > e.lastSeen) \/ e.fileDigest = NoDigest
          BY <4>1, <4>2 DEF Recorded, Measured
        <4> QED
          BY <3>1, <3>2, <4>3
      <3> QED
        BY <3>1, <3>2
    <2> QED
      BY <1>1, <2>1, <2>2, <2>3, <2>4
  <1>7. Measured(l, d, t)
    <2> HIDE DEF l
    <2> QED
      BY <1>1, <1>6, Zenon DEF Measured
  <1>8a. \A e \in Open(prior) : SameDefect(e, r(e)) /\ r(e).state \in {"open", "fixed", "reverted"}
    BY Outcomes DEF Open
  <1>8b. \A e \in Open(prior) : ~IsOpen(r(e)) => r(e) \in done
    BY DEF Resolved, Outcome
  <1>8. Answered(prior, l, done)
    <2> HIDE DEF l, r, done
    <2> QED
      BY <1>1, <1>8a, <1>8b DEF Answered, Open
  <1>9. ASSUME Verdict(l, findings) = "success" PROVE Cleared(prior, l, done)
    <2>1. findings = {} /\ Carried(l, findings) = {}
      BY <1>9 DEF Verdict
    <2>2. Open(l) = {}
      BY <2>1 DEF Carried
    <2> HIDE DEF l, r, done
    <2>3. \A e \in Open(prior) : ~IsOpen(r(e))
      BY <1>1, <2>2 DEF Open
    <2> QED
      BY <1>8a, <1>8b, <2>2, <2>3 DEF Cleared, IsOpen
  <1> QED
    BY <1>1, <1>5, <1>7, <1>8, <1>9 DEF Recorded

(* Silence is not a fix: what is closed as fixed was touched, or off the diff. *)
LEMMA FixedWasTouched ==
  ASSUME LedgerAssumption, NEW prior, NEW findings, NEW d, NEW sha, NEW base, NEW land,
         Readable(prior, findings, d, sha, base, land),
         NEW t \in Touches, NEW h \in Nat, Recorded(prior, d, t, h),
         base = <<d.base>>, prior.lastBase # NoBase,
         NEW e \in Open(prior), Outcome(e, prior, findings, d, sha, base, land).state = "fixed"
  PROVE  (\E p \in Places : t[e.path[1]][p] > e.lastSeen) \/ e.fileDigest = NoDigest
  <1> DEFINE f == e.path[1]
             current == FileDigest(d, PathOf(d, f))
  <1>1. SUFFICES ASSUME e.fileDigest # NoDigest, ~\E p \in Places : t[f][p] > e.lastSeen PROVE FALSE
    OBVIOUS
  <1>2. /\ e \in prior.entries /\ IsOpen(e) /\ e \in AnyEntry /\ f \in Files /\ d \in AnyDiff /\ d.base \in Nat
        /\ e.fileDigest \in AnyFileDigest /\ prior.lastBase \in AnyBase
    BY DEF Open, Readable, AnyLedger, AnyEntry, Paths, AnyDiff
  <1>3. ~HistoryRewritten(prior, base) /\ current # e.fileDigest /\ current # NoDigest
    BY <1>1, <1>2, Outcomes
  <1>4. prior.lastBase = <<d.base>>
    BY <1>3, DigestShape DEF HistoryRewritten
  <1>5. /\ e.fileDigest[2] = d.text[f]
        /\ HasHunks(d, f) => e.fileDigest[1] <= d.base /\ d.base <= e.fileDigest[1]
        /\ ~HasHunks(d, f) => e.fileDigest[1] = 0
    BY <1>1, <1>4 DEF Recorded, Measured
  <1>6. current = <<IF HasHunks(d, f) THEN d.base ELSE 0, d.text[f]>>
    BY <1>2, <1>3, MeasuredNow
  <1>7. e.fileDigest \in Nat \X [Places -> Texts]
    BY <1>1, <1>2 DEF AnyFileDigest
  <1> HIDE DEF f, current
  <1>8. e.fileDigest = <<e.fileDigest[1], e.fileDigest[2]>> /\ e.fileDigest[1] \in Nat
    BY <1>7
  <1>9. e.fileDigest[1] = IF HasHunks(d, f) THEN d.base ELSE 0
    BY <1>2, <1>5, <1>8
  <1> QED
    BY <1>3, <1>5, <1>6, <1>8, <1>9
-----------------------------------------------------------------------------
(* One writer at a time. *)

CodeOK ==
  /\ diff \in AnyDiff /\ bases \in Seq(Nat) /\ touched \in [Files -> [Places -> 0..HeadNow]]
  /\ \A h \in 1..HeadNow : bases[h] <= diff.base

(* What a review holds once it has read its diff: the ledger is still that  *)
(* of an earlier head, or of now.                                          *)
ReadOK(i) ==
  LET v == review[i]
  IN  /\ v = [at |-> "read", sha |-> v.sha, base |-> v.base, diff |-> v.diff, findings |-> v.findings]
      /\ v.diff \in AnyDiff /\ Reported(v.findings, v.diff) /\ v.sha \in Nat
      /\ v.base \in AnyBase /\ (v.base # NoBase => v.base[1] <= v.diff.base)
      /\ \E h \in 0..HeadNow : v.sha <= h /\ Recorded(ledger, v.diff, touched, h)
                               /\ Later(v.diff, h, diff, touched)

(* And once it has folded: what it is about to save is a record, too. *)
FoldedOK(i) ==
  LET v == review[i]
  IN  /\ v = [at |-> v.at, known |-> v.known, next |-> v.next, resolved |-> v.resolved, check |-> v.check]
      /\ v.known \in BOOLEAN
      /\ v.known => /\ Recorded(v.next, diff, touched, HeadNow) /\ Answered(ledger, v.next, v.resolved)
                    /\ v.check = "success" => Cleared(ledger, v.next, v.resolved)

Alone ==
  /\ resolve # Idle => \A i \in Reviewers : review[i] = Idle
  /\ \A i, j \in Reviewers : review[i] # Idle /\ review[j] # Idle => i = j

Holds(i) ==
  \/ review[i] = Idle
  \/ review[i].at = "read" /\ ReadOK(i)
  \/ review[i].at \in {"folded", "posted"} /\ FoldedOK(i)

MemoryInv ==
  /\ CodeOK /\ Alone
  /\ review = [i \in Reviewers |-> review[i]]
  /\ Recorded(ledger, diff, touched, HeadNow)
  /\ resolve = Idle \/ resolve = [at |-> "read", ledger |-> ledger]
  /\ \A i \in Reviewers : Holds(i)

(* What the author does: the diff moves on, and no head or touch is lost. *)
LEMMA Authors ==
  ASSUME CodeOK, Author
  PROVE  /\ CodeOK' /\ HeadNow \in Nat /\ HeadNow' = HeadNow + 1
         /\ touched \in Touches /\ touched' \in Touches /\ NoFewer(touched, touched')
         /\ Later(diff, HeadNow, diff', touched')
         /\ ledger' = ledger /\ review' = review /\ resolve' = resolve
  <1>1. /\ HeadNow \in Nat /\ diff.base \in Nat /\ touched \in [Files -> [Places -> 0..HeadNow]]
        /\ diff.text \in [Files -> [Places -> Texts]] /\ diff.renamed \subseteq Files
        /\ diff = [base |-> diff.base, text |-> diff.text, renamed |-> diff.renamed]
    BY DEF CodeOK, AnyDiff, HeadNow
  <1>2. ledger' = ledger /\ review' = review /\ resolve' = resolve
    BY DEF Author, Push, Rename, Rebase
  <1>3. ASSUME NEW b \in Nat, diff.base <= b, bases' = Append(bases, b), diff'.base = b
        PROVE  /\ bases' \in Seq(Nat) /\ HeadNow' = HeadNow + 1
               /\ \A h \in 1..HeadNow' : bases'[h] <= diff'.base
    <2>1. /\ bases' \in Seq(Nat) /\ Len(bases') = Len(bases) + 1 /\ bases'[Len(bases) + 1] = b
          /\ \A h \in 1..Len(bases) : bases'[h] = bases[h]
      BY <1>3, AppendProperties DEF CodeOK
    <2>2. \A h \in 1..Len(bases) : bases[h] \in Nat /\ bases[h] <= diff.base
      BY DEF CodeOK, HeadNow
    <2> QED
      BY <1>1, <1>3, <2>1, <2>2 DEF HeadNow
  <1>4. ASSUME NEW f \in Files, NEW p \in Places, NEW t \in Texts, Push(f, p, t)
        PROVE  /\ CodeOK' /\ HeadNow' = HeadNow + 1 /\ touched' \in [Files -> [Places -> 0..HeadNow + 1]]
               /\ NoFewer(touched, touched') /\ Later(diff, HeadNow, diff', touched')
    <2>1. /\ diff' = [base |-> diff.base, text |-> [diff.text EXCEPT ![f][p] = t], renamed |-> diff.renamed]
          /\ bases' = Append(bases, diff.base)
          /\ touched' = [touched EXCEPT ![f][p] = HeadNow + 1]
      BY <1>1, <1>4 DEF Push
    <2>2. diff' \in AnyDiff /\ diff'.base = diff.base /\ diff'.renamed = diff.renamed
      <3>1. [diff.text EXCEPT ![f][p] = t] \in [Files -> [Places -> Texts]]
        BY <1>1
      <3> QED
        BY <1>1, <2>1, <3>1 DEF AnyDiff
    <2>3. bases' \in Seq(Nat) /\ HeadNow' = HeadNow + 1 /\ \A h \in 1..HeadNow' : bases'[h] <= diff'.base
      <3>1. diff.base <= diff.base
        BY <1>1
      <3> QED
        BY <1>1, <1>3, <2>1, <2>2, <3>1, Zenon
    <2>4. touched' \in [Files -> [Places -> 0..HeadNow + 1]] /\ NoFewer(touched, touched')
          /\ touched'[f][p] = HeadNow + 1
      BY <1>1, <2>1 DEF NoFewer
    <2>5. Later(diff, HeadNow, diff', touched')
      <3>1. \A g \in Files : g # f => diff'.text[g] = diff.text[g]
        BY <1>1, <2>1
      <3> QED
        BY <1>1, <2>2, <2>4, <3>1 DEF Later
    <2> QED
      BY <2>2, <2>3, <2>4, <2>5 DEF CodeOK
  <1>5. ASSUME diff'.text = diff.text, diff'.renamed \subseteq Files, diff.renamed \subseteq diff'.renamed,
               diff'.base \in Nat, diff.base <= diff'.base,
               diff' = [base |-> diff'.base, text |-> diff'.text, renamed |-> diff'.renamed],
               bases' = Append(bases, diff'.base), touched' = touched
        PROVE  /\ CodeOK' /\ HeadNow' = HeadNow + 1 /\ touched' \in [Files -> [Places -> 0..HeadNow + 1]]
               /\ NoFewer(touched, touched') /\ Later(diff, HeadNow, diff', touched')
    <2>1. diff' \in AnyDiff
      BY <1>1, <1>5 DEF AnyDiff
    <2>2. bases' \in Seq(Nat) /\ HeadNow' = HeadNow + 1 /\ \A h \in 1..HeadNow' : bases'[h] <= diff'.base
      BY <1>3, <1>5
    <2>3. touched' \in [Files -> [Places -> 0..HeadNow + 1]] /\ NoFewer(touched, touched')
      BY <1>1, <1>5 DEF NoFewer
    <2>4. Later(diff, HeadNow, diff', touched')
      BY <1>5 DEF Later
    <2> QED
      BY <2>1, <2>2, <2>3, <2>4 DEF CodeOK
  <1>6. ASSUME NEW f \in Files, Rename(f)
        PROVE  /\ CodeOK' /\ HeadNow' = HeadNow + 1 /\ touched' \in [Files -> [Places -> 0..HeadNow + 1]]
               /\ NoFewer(touched, touched') /\ Later(diff, HeadNow, diff', touched')
    <2>1. diff' = [base |-> diff.base, text |-> diff.text, renamed |-> diff.renamed \cup {f}]
          /\ bases' = Append(bases, diff.base) /\ touched' = touched
      BY <1>1, <1>6 DEF Rename
    <2>2. diff'.base = diff.base /\ diff'.text = diff.text /\ diff'.renamed = diff.renamed \cup {f}
      BY <2>1
    <2> QED
      BY <1>1, <1>5, <2>1, <2>2
  <1>7. ASSUME Rebase
        PROVE  /\ CodeOK' /\ HeadNow' = HeadNow + 1 /\ touched' \in [Files -> [Places -> 0..HeadNow + 1]]
               /\ NoFewer(touched, touched') /\ Later(diff, HeadNow, diff', touched')
    <2>1. diff' = [base |-> diff.base + 1, text |-> diff.text, renamed |-> diff.renamed]
          /\ bases' = Append(bases, diff.base + 1) /\ touched' = touched
      BY <1>1, <1>7 DEF Rebase
    <2>2. diff'.base = diff.base + 1 /\ diff'.text = diff.text /\ diff'.renamed = diff.renamed
      BY <2>1
    <2> QED
      BY <1>1, <1>5, <2>1, <2>2
  <1>8. /\ CodeOK' /\ HeadNow' = HeadNow + 1 /\ touched' \in [Files -> [Places -> 0..HeadNow + 1]]
        /\ NoFewer(touched, touched') /\ Later(diff, HeadNow, diff', touched')
    BY <1>4, <1>6, <1>7 DEF Author
  <1>9. touched \in Touches /\ touched' \in Touches
    BY <1>1, <1>8 DEF Touches
  <1> QED
    BY <1>1, <1>2, <1>8, <1>9

(* A push, a rename or a rebase keeps the record true, and every review's. *)
LEMMA AuthorKeeps == ASSUME MemoryInv, Author PROVE MemoryInv'
  <1>1. /\ CodeOK' /\ HeadNow \in Nat /\ HeadNow' \in Nat /\ HeadNow <= HeadNow'
        /\ touched \in Touches /\ touched' \in Touches /\ NoFewer(touched, touched')
        /\ Later(diff, HeadNow, diff', touched')
        /\ ledger' = ledger /\ review' = review /\ resolve' = resolve
        /\ diff \in AnyDiff /\ diff' \in AnyDiff
    <2>1. CodeOK /\ CodeOK'
      BY Authors DEF MemoryInv
    <2> QED
      BY <2>1, Authors DEF CodeOK
  <1>2. ASSUME NEW l, Recorded(l, diff, touched, HeadNow) PROVE Recorded(l, diff', touched', HeadNow')
    <2>1. Recorded(l, diff, touched', HeadNow)
      BY <1>1, <1>2, TouchesGrow
    <2> QED
      BY <1>1, <2>1, Drifts
  <1>3. Recorded(ledger', diff', touched', HeadNow')
    BY <1>1, <1>2 DEF MemoryInv
  <1>4. ASSUME NEW i \in Reviewers, ReadOK(i) PROVE ReadOK(i)'
    <2> DEFINE v == review[i]
    <2>1. PICK h \in 0..HeadNow : /\ v.sha <= h /\ Recorded(ledger, v.diff, touched, h)
                                  /\ Later(v.diff, h, diff, touched)
      BY <1>4 DEF ReadOK
    <2>2. v.diff \in AnyDiff
      BY <1>4 DEF ReadOK
    <2>3. Recorded(ledger, v.diff, touched', h)
      BY <1>1, <2>1, TouchesGrow
    <2>4. h \in Nat /\ h <= HeadNow /\ h \in 0..HeadNow'
      BY <1>1, <2>1
    <2>5. Later(v.diff, h, diff', touched')
      BY <1>1, <2>1, <2>2, <2>4, LaterStill
    <2> QED
      BY <1>1, <1>4, <2>1, <2>3, <2>4, <2>5 DEF ReadOK
  <1>5. ASSUME NEW i \in Reviewers, FoldedOK(i) PROVE FoldedOK(i)'
    BY <1>1, <1>2, <1>5 DEF FoldedOK
  <1>6. \A i \in Reviewers : Holds(i)'
    BY <1>1, <1>4, <1>5 DEF MemoryInv, Holds
  <1>7. Alone' /\ review' = [i \in Reviewers |-> review'[i]]
        /\ (resolve' = Idle \/ resolve' = [at |-> "read", ledger |-> ledger'])
    BY <1>1 DEF MemoryInv, Alone
  <1> QED
    BY <1>1, <1>3, <1>6, <1>7 DEF MemoryInv

(* A review reports what its diff has, once. *)
LEMMA FindingsAreReported ==
  ASSUME LedgerAssumption, diff \in AnyDiff, NEW found \in SUBSET (Files \X Defects), NEW where \in [found -> Spots]
  PROVE  Reported(Found(where), diff)
  <1> DEFINE findings == Found(where)
  <1>1. DOMAIN where = found
    OBVIOUS
  <1>2. findings = {[path |-> PathOf(diff, x[1]), defect |-> x[2], place |-> where[x]] : x \in found}
    BY <1>1 DEF Found
  <1> HIDE DEF findings
  <1> DEFINE g == [x \in found |-> [path |-> PathOf(diff, x[1]), defect |-> x[2], place |-> where[x]]]
  <1>3. IsFiniteSet(found)
    BY FS_Product, FS_Subset DEF LedgerAssumption
  <1>4. IsFiniteSet(findings)
    <2>1. findings = {g[x] : x \in found} /\ g = [x \in found |-> g[x]]
      BY <1>2
    <2> HIDE DEF g
    <2> QED
      BY <1>3, <2>1, FiniteImage
  <1>5. \A x \in found : /\ x[1] \in Files /\ x[2] \in Defects /\ where[x] \in Spots /\ x = <<x[1], x[2]>>
                         /\ PathOf(diff, x[1]) \in Paths /\ PathOf(diff, x[1])[1] = x[1]
    BY DEF PathOf, Paths
  <1>6. \A f \in findings : \E x \in found :
          /\ f = [path |-> PathOf(diff, x[1]), defect |-> x[2], place |-> where[x]]
          /\ f.path = PathOf(diff, x[1]) /\ f.path[1] = x[1] /\ f.defect = x[2] /\ f \in AnyFinding
    BY <1>2, <1>5 DEF AnyFinding
  <1>7. ASSUME NEW f \in findings, NEW h \in findings, f.path = h.path, f.defect = h.defect PROVE f = h
    BY <1>5, <1>6, <1>7
  <1> QED
    BY <1>4, <1>6, <1>7 DEF Reported, findings

(* A review reads the diff of now, and the ledger is that of now. *)
LEMMA ReadKeeps ==
  ASSUME LedgerAssumption, ~Overlap, MemoryInv, NEW i \in Reviewers, NEW sha \in 0..HeadNow, NEW base \in AnyBase,
         base # NoBase => base[1] <= diff.base, ReadDiff(i, sha, base)
  PROVE  MemoryInv'
  <1>1. /\ Quiet /\ CodeOK /\ HeadNow \in Nat /\ diff \in AnyDiff
        /\ diff' = diff /\ bases' = bases /\ touched' = touched /\ ledger' = ledger /\ resolve' = resolve
        /\ HeadNow' = HeadNow
    BY DEF ReadDiff, MayBegin, MemoryInv, codeVars, CodeOK, HeadNow
  <1>2. PICK findings :
          /\ Reported(findings, diff)
          /\ review' = [review EXCEPT ![i] = [at |-> "read", sha |-> sha, base |-> base,
                                              diff |-> diff, findings |-> findings]]
    BY <1>1, FindingsAreReported DEF ReadDiff, Spots
  <1>3. /\ review'[i] = [at |-> "read", sha |-> sha, base |-> base, diff |-> diff, findings |-> findings]
        /\ \A j \in Reviewers \ {i} : review'[j] = Idle
        /\ review' = [j \in Reviewers |-> review'[j]]
    BY <1>1, <1>2 DEF MemoryInv, Quiet
  <1>4. Reported(findings, diff)
    BY <1>2
  <1>5. Later(diff, HeadNow, diff, touched)
    BY <1>1 DEF Later, AnyDiff
  <1>6. ReadOK(i)'
    <2>1. Recorded(ledger, diff, touched, HeadNow) /\ HeadNow \in 0..HeadNow /\ sha <= HeadNow /\ sha \in Nat
      BY <1>1 DEF MemoryInv
    <2> QED
      BY <1>1, <1>3, <1>4, <1>5, <2>1 DEF ReadOK
  <1>7. \A j \in Reviewers : Holds(j)'
    BY <1>3, <1>6 DEF Holds
  <1>8. CodeOK' /\ Recorded(ledger', diff', touched', HeadNow')
    BY <1>1 DEF CodeOK, MemoryInv
  <1>9. Alone' /\ resolve' = Idle
    BY <1>1, <1>3 DEF Alone, Quiet
  <1> QED
    BY <1>3, <1>7, <1>8, <1>9 DEF MemoryInv

(* A webhook's head and base are of the pull request; a command has no base. *)
LEMMA ReviewReads ==
  ASSUME CodeOK, NEW i \in Reviewers, WebhookReview(i) \/ CommandReview(i)
  PROVE  \E sha \in 0..HeadNow, base \in AnyBase :
           (base # NoBase => base[1] <= diff.base) /\ ReadDiff(i, sha, base)
  <1>1. HeadNow \in Nat /\ \A h \in 1..HeadNow : bases[h] \in Nat /\ bases[h] <= diff.base
    BY DEF CodeOK, HeadNow
  <1>2. CASE WebhookReview(i)
    <2>1. PICK h \in 1..HeadNow : ReadDiff(i, h, <<bases[h]>>)
      BY <1>2 DEF WebhookReview
    <2>2. h \in 0..HeadNow /\ <<bases[h]>> \in AnyBase /\ <<bases[h]>>[1] <= diff.base
      BY <1>1 DEF AnyBase
    <2> QED
      BY <2>1, <2>2, Zenon
  <1>3. CASE CommandReview(i)
    <2>1. ReadDiff(i, HeadNow, NoBase) /\ HeadNow \in 0..HeadNow /\ NoBase \in AnyBase
      BY <1>1, <1>3 DEF CommandReview, AnyBase
    <2> QED
      BY <2>1, Zenon
  <1> QED
    BY <1>2, <1>3

(* What a review that has read is given to fold, and what it makes of it. *)
Folding(i, prior, known, land) ==
  LET v == review[i]
      next == Reconcile(prior, v.findings, v.diff, v.sha, v.base, land)
      done == Resolved(prior, v.findings, v.diff, v.sha, v.base, land)
  IN  /\ review'[i] = [at |-> "folded", known |-> known, next |-> next, resolved |-> done,
                       check |-> Verdict(next, v.findings)]
      /\ \A j \in Reviewers \ {i} : review'[j] = review[j]
      /\ review' = [j \in Reviewers |-> review'[j]]

(* The step that folds, spelled out for the review that takes it. *)
LEMMA FoldsInto ==
  ASSUME LedgerAssumption, MemoryInv, NEW i \in Reviewers, review[i].at = "read",
         NEW prior, NEW known, FoldInto(i, prior, known)
  PROVE  \E land \in [Spots -> Spots] : Folding(i, prior, known, land)
  <1> DEFINE v == review[i]
             N(land) == Reconcile(prior, v.findings, v.diff, v.sha, v.base, land)
             D(land) == Resolved(prior, v.findings, v.diff, v.sha, v.base, land)
  <1>1. PICK land \in Lands(prior, v.base) :
          review' = [review EXCEPT ![i] = [at |-> "folded", known |-> known, next |-> N(land),
                                           resolved |-> D(land), check |-> Verdict(N(land), v.findings)]]
    BY Zenon DEF FoldInto
  <1>2. land \in [Spots -> Spots]
    BY <1>1 DEF Lands, Spots
  <1>3. review = [j \in Reviewers |-> review[j]]
    BY DEF MemoryInv
  <1> HIDE DEF N, D
  <1>4. /\ review'[i] = [at |-> "folded", known |-> known, next |-> N(land), resolved |-> D(land),
                         check |-> Verdict(N(land), v.findings)]
        /\ \A j \in Reviewers \ {i} : review'[j] = review[j]
        /\ review' = [j \in Reviewers |-> review'[j]]
    BY <1>1, <1>3
  <1> QED
    BY <1>2, <1>4 DEF N, D, Folding

(* What a review that has read the ledger folds into it. *)
LEMMA FoldsRecord ==
  ASSUME LedgerAssumption, MemoryInv, NEW i \in Reviewers, review[i].at = "read", NEW land \in [Spots -> Spots]
  PROVE  LET v == review[i]
             next == Reconcile(ledger, v.findings, v.diff, v.sha, v.base, land)
             done == Resolved(ledger, v.findings, v.diff, v.sha, v.base, land)
         IN  /\ Readable(ledger, v.findings, v.diff, v.sha, v.base, land)
             /\ \E h \in Nat : Recorded(ledger, v.diff, touched, h)
             /\ Recorded(next, diff, touched, HeadNow) /\ Answered(ledger, next, done)
             /\ Verdict(next, v.findings) = "success" => Cleared(ledger, next, done)
  <1> DEFINE v == review[i]
             next == Reconcile(ledger, v.findings, v.diff, v.sha, v.base, land)
             done == Resolved(ledger, v.findings, v.diff, v.sha, v.base, land)
  <1>1. ReadOK(i)
    <2>1. Idle.at = "idle"
      BY DEF Idle
    <2> QED
      BY <2>1 DEF MemoryInv, Holds
  <1>2. CodeOK /\ HeadNow \in Nat /\ diff \in AnyDiff /\ touched \in Touches
    BY DEF MemoryInv, CodeOK, HeadNow, Touches
  <1>3. PICK h \in 0..HeadNow : /\ v.sha <= h /\ Recorded(ledger, v.diff, touched, h)
                                /\ Later(v.diff, h, diff, touched)
    BY <1>1 DEF ReadOK
  <1>4. Readable(ledger, v.findings, v.diff, v.sha, v.base, land)
    BY <1>1, <1>3 DEF Readable, ReadOK, Recorded
  <1>5. h \in Nat /\ h <= HeadNow
    BY <1>2, <1>3
  <1>6. /\ Recorded(next, v.diff, touched, h) /\ Answered(ledger, next, done)
        /\ Verdict(next, v.findings) = "success" => Cleared(ledger, next, done)
    BY <1>1, <1>2, <1>3, <1>4, <1>5, FoldRecords DEF ReadOK
  <1> HIDE DEF next, done
  <1>7. Recorded(next, diff, touched, HeadNow)
    BY <1>1, <1>2, <1>3, <1>5, <1>6, Drifts DEF ReadOK
  <1> QED
    BY <1>3, <1>4, <1>5, <1>6, <1>7 DEF next, done

(* Folding leaves the ledger as it was, and the review with a record of now. *)
LEMMA FoldKeeps ==
  ASSUME LedgerAssumption, MemoryInv, NEW i \in Reviewers, Fold(i)
  PROVE  MemoryInv'
  <1>1. /\ review[i].at = "read"
        /\ diff' = diff /\ bases' = bases /\ touched' = touched /\ ledger' = ledger /\ resolve' = resolve
        /\ HeadNow' = HeadNow
        /\ FoldInto(i, ledger, TRUE) \/ FoldInto(i, EmptyLedger, FALSE)
    BY DEF Fold, codeVars, HeadNow
  <1>2. \E known \in BOOLEAN : \E next, done, check :
          /\ review'[i] = [at |-> "folded", known |-> known, next |-> next, resolved |-> done, check |-> check]
          /\ \A j \in Reviewers \ {i} : review'[j] = review[j]
          /\ review' = [j \in Reviewers |-> review'[j]]
          /\ known => /\ Recorded(next, diff, touched, HeadNow) /\ Answered(ledger, next, done)
                      /\ check = "success" => Cleared(ledger, next, done)
    <2>1. CASE FoldInto(i, ledger, TRUE)
      <3> DEFINE v == review[i]
                 N(land) == Reconcile(ledger, v.findings, v.diff, v.sha, v.base, land)
                 D(land) == Resolved(ledger, v.findings, v.diff, v.sha, v.base, land)
      <3>1. PICK land \in [Spots -> Spots] : Folding(i, ledger, TRUE, land)
        BY <1>1, <2>1, FoldsInto
      <3>2. /\ Recorded(N(land), diff, touched, HeadNow) /\ Answered(ledger, N(land), D(land))
            /\ Verdict(N(land), v.findings) = "success" => Cleared(ledger, N(land), D(land))
        BY <1>1, FoldsRecord
      <3>3. /\ review'[i] = [at |-> "folded", known |-> TRUE, next |-> N(land), resolved |-> D(land),
                             check |-> Verdict(N(land), v.findings)]
            /\ \A j \in Reviewers \ {i} : review'[j] = review[j]
            /\ review' = [j \in Reviewers |-> review'[j]]
        BY <3>1 DEF Folding
      <3> HIDE DEF N, D
      <3> QED
        BY <3>2, <3>3
    <2>2. CASE FoldInto(i, EmptyLedger, FALSE)
      <3>1. PICK land : Folding(i, EmptyLedger, FALSE, land)
        BY <1>1, <2>2, FoldsInto
      <3>2. \E next, done, check :
                   review'[i] = [at |-> "folded", known |-> FALSE, next |-> next, resolved |-> done, check |-> check]
        BY <3>1, Zenon DEF Folding
      <3> QED
        BY <3>1, <3>2 DEF Folding
    <2> QED
      BY <1>1, <2>1, <2>2
  <1>2a. PICK known \in BOOLEAN : \E next, done, check :
          /\ review'[i] = [at |-> "folded", known |-> known, next |-> next, resolved |-> done, check |-> check]
          /\ \A j \in Reviewers \ {i} : review'[j] = review[j]
          /\ review' = [j \in Reviewers |-> review'[j]]
          /\ known => /\ Recorded(next, diff, touched, HeadNow) /\ Answered(ledger, next, done)
                      /\ check = "success" => Cleared(ledger, next, done)
    BY <1>2, Zenon
  <1>3. PICK next, done, check :
          /\ review'[i] = [at |-> "folded", known |-> known, next |-> next, resolved |-> done, check |-> check]
          /\ \A j \in Reviewers \ {i} : review'[j] = review[j]
          /\ review' = [j \in Reviewers |-> review'[j]]
          /\ known => /\ Recorded(next, diff, touched, HeadNow) /\ Answered(ledger, next, done)
                      /\ check = "success" => Cleared(ledger, next, done)
    BY <1>2a, Zenon
  <1>4. FoldedOK(i)' /\ review'[i].at = "folded"
    BY <1>1, <1>3 DEF FoldedOK
  <1>5. review[i] # Idle
    BY <1>1 DEF Idle
  <1>6. \A j \in Reviewers \ {i} : review[j] = Idle /\ review'[j] = Idle
    BY <1>3, <1>5 DEF MemoryInv, Alone
  <1>7. resolve' = Idle /\ Alone'
    BY <1>1, <1>5, <1>6 DEF MemoryInv, Alone
  <1>8. \A j \in Reviewers : Holds(j)'
    BY <1>4, <1>6 DEF Holds
  <1>9. CodeOK' /\ Recorded(ledger', diff', touched', HeadNow')
    BY <1>1 DEF CodeOK, MemoryInv
  <1> QED
    BY <1>3, <1>7, <1>8, <1>9 DEF MemoryInv

(* Posting changes nothing of what is remembered. *)
LEMMA PostKeeps ==
  ASSUME MemoryInv, NEW i \in Reviewers, Post(i)
  PROVE  MemoryInv'
  <1>1. /\ review[i].at = "folded" /\ review' = [review EXCEPT ![i].at = "posted"]
        /\ diff' = diff /\ bases' = bases /\ touched' = touched /\ ledger' = ledger /\ resolve' = resolve
        /\ HeadNow' = HeadNow /\ review = [j \in Reviewers |-> review[j]]
    BY DEF Post, codeVars, HeadNow, MemoryInv
  <1>2. FoldedOK(i) /\ review[i] # Idle
    BY <1>1 DEF MemoryInv, Holds, Idle
  <1>3. /\ review'[i] = [at |-> "posted", known |-> review[i].known, next |-> review[i].next,
                         resolved |-> review[i].resolved, check |-> review[i].check]
        /\ \A j \in Reviewers \ {i} : review'[j] = review[j]
        /\ review' = [j \in Reviewers |-> review'[j]]
    BY <1>1, <1>2 DEF FoldedOK
  <1>4. FoldedOK(i)' /\ review'[i].at = "posted"
    BY <1>1, <1>2, <1>3 DEF FoldedOK
  <1>5. \A j \in Reviewers \ {i} : review'[j] = Idle
    BY <1>2, <1>3 DEF MemoryInv, Alone
  <1>6. resolve' = Idle /\ Alone'
    BY <1>1, <1>2, <1>5 DEF MemoryInv, Alone
  <1>7. \A j \in Reviewers : Holds(j)'
    BY <1>4, <1>5 DEF Holds
  <1>8. CodeOK' /\ Recorded(ledger', diff', touched', HeadNow')
    BY <1>1 DEF CodeOK, MemoryInv
  <1> QED
    BY <1>3, <1>6, <1>7, <1>8 DEF MemoryInv

(* A review that saves or gives up leaves the ledger free, and a record. *)
LEMMA EndKeeps ==
  ASSUME MemoryInv, NEW i \in Reviewers, Save(i) \/ Drop(i)
  PROVE  MemoryInv'
  <1>1. /\ review[i].at \in {"read", "folded", "posted"} /\ review' = [review EXCEPT ![i] = Idle]
        /\ diff' = diff /\ bases' = bases /\ touched' = touched /\ resolve' = resolve
        /\ HeadNow' = HeadNow /\ review = [j \in Reviewers |-> review[j]]
    BY DEF Save, Drop, codeVars, HeadNow, MemoryInv
  <1>2. review[i] # Idle
    BY <1>1 DEF Idle
  <1>3. Recorded(ledger', diff', touched', HeadNow')
    <2>1. ledger' = ledger \/ (review[i].at = "posted" /\ review[i].known /\ ledger' = review[i].next)
      BY DEF Save, Drop
    <2>2. CASE review[i].at = "posted" /\ review[i].known /\ ledger' = review[i].next
      BY <1>1, <1>2, <2>2 DEF MemoryInv, Holds, FoldedOK
    <2>3. CASE ledger' = ledger
      BY <1>1, <2>3 DEF MemoryInv
    <2> QED
      BY <2>1, <2>2, <2>3
  <1>4. \A j \in Reviewers : review'[j] = Idle
    BY <1>1, <1>2 DEF MemoryInv, Alone
  <1>5. resolve' = Idle /\ Alone'
    BY <1>1, <1>2, <1>4 DEF MemoryInv, Alone
  <1>6. review' = [j \in Reviewers |-> review'[j]] /\ CodeOK'
    BY <1>1 DEF CodeOK, MemoryInv
  <1> QED
    BY <1>3, <1>4, <1>5, <1>6 DEF MemoryInv, Holds

(* A resolve leaves nothing open, and a record. *)
LEMMA Dismisses ==
  ASSUME NEW l, NEW d, NEW t, NEW h, Recorded(l, d, t, h)
  PROVE  /\ Recorded(DismissAll(l), d, t, h) /\ Open(DismissAll(l)) = {}
         /\ \A e \in Open(l) : \E e2 \in DismissAll(l).entries : SameDefect(e, e2) /\ e2.state = "dismissed"
  <1> DEFINE closed(e) == IF IsOpen(e) THEN [e EXCEPT !.state = "dismissed"] ELSE e
             es == {closed(e) : e \in l.entries}
  <1>1. /\ l.entries \subseteq AnyEntry /\ IsFiniteSet(l.entries) /\ l \in AnyLedger
        /\ \A e \in l.entries : e.lastSeen <= h
    BY DEF Recorded, AnyLedger
  <1>2. \A e \in l.entries : /\ closed(e) \in AnyEntry /\ closed(e).lastSeen <= h
                             /\ ~IsOpen(closed(e)) /\ SameDefect(e, closed(e))
                             /\ IsOpen(e) => closed(e).state = "dismissed"
    BY <1>1 DEF AnyEntry, IsOpen, SameDefect
  <1>3. IsFiniteSet(es)
    <2> DEFINE g == [e \in l.entries |-> closed(e)]
    <2>1. es = {g[e] : e \in l.entries} /\ g = [e \in l.entries |-> g[e]]
      OBVIOUS
    <2> HIDE DEF es, g
    <2> QED
      BY <1>1, <2>1, FiniteImage
  <1>4. DismissAll(l) = [l EXCEPT !.entries = es]
    BY DEF DismissAll
  <1>5. /\ es \subseteq AnyEntry /\ (\A e \in es : e.lastSeen <= h /\ ~IsOpen(e))
        /\ \A e \in Open(l) : \E e2 \in es : SameDefect(e, e2) /\ e2.state = "dismissed"
    <2> HIDE DEF closed
    <2> QED
      BY <1>2 DEF Open
  <1> HIDE DEF es
  <1>6. DismissAll(l).entries = es /\ DismissAll(l) \in AnyLedger
    BY <1>1, <1>4, <1>5 DEF AnyLedger
  <1>7. Open(DismissAll(l)) = {}
    BY <1>5, <1>6 DEF Open
  <1> QED
    BY <1>3, <1>5, <1>6, <1>7 DEF Recorded, Unique, Located, Measured

(* A resolve begins and ends alone, and what it saves is a record. *)
LEMMA ResolveKeeps ==
  ASSUME ~Overlap, MemoryInv, ResolveRead \/ ResolveSave
  PROVE  MemoryInv'
  <1>1. /\ diff' = diff /\ bases' = bases /\ touched' = touched /\ review' = review /\ HeadNow' = HeadNow
        /\ \A i \in Reviewers : review[i] = Idle
    <2>1. CASE ResolveRead
      BY <2>1 DEF ResolveRead, MayBegin, Quiet, codeVars, HeadNow
    <2>2. CASE ResolveSave
      <3>1. resolve # Idle
        BY <2>2 DEF ResolveSave, Idle
      <3> QED
        BY <2>2, <3>1 DEF ResolveSave, codeVars, HeadNow, MemoryInv, Alone
    <2> QED
      BY <2>1, <2>2
  <1>2. Recorded(ledger', diff', touched', HeadNow')
        /\ (resolve' = Idle \/ resolve' = [at |-> "read", ledger |-> ledger'])
    <2>1. CASE ResolveRead
      BY <1>1, <2>1 DEF ResolveRead, MemoryInv
    <2>2. CASE ResolveSave
      <3>1. resolve = [at |-> "read", ledger |-> ledger]
        BY <2>2 DEF ResolveSave, MemoryInv, Idle
      <3>2. resolve' = Idle /\ (ledger' = DismissAll(ledger) \/ ledger' = ledger)
        BY <2>2, <3>1 DEF ResolveSave
      <3>3. Recorded(ledger, diff, touched, HeadNow)
        BY DEF MemoryInv
      <3> QED
        BY <1>1, <3>2, <3>3, Dismisses
    <2> QED
      BY <2>1, <2>2
  <1>3. Alone' /\ \A i \in Reviewers : Holds(i)'
    BY <1>1 DEF Alone, Holds
  <1>4. CodeOK' /\ review' = [i \in Reviewers |-> review'[i]]
    BY <1>1 DEF MemoryInv, CodeOK
  <1> QED
    BY <1>2, <1>3, <1>4 DEF MemoryInv

(* A pull request nobody has reviewed has an empty record. *)
LEMMA InitMemory == ASSUME LedgerAssumption, Init PROVE MemoryInv
  <1>1. HeadNow = 0
    BY DEF Init, HeadNow
  <1>2. diff \in AnyDiff /\ bases \in Seq(Nat) /\ touched \in [Files -> [Places -> 0..HeadNow]]
    <2>1. [p \in Places |-> NoHunk] \in [Places -> Texts]
      BY DEF Texts
    <2> QED
      BY <1>1, <2>1 DEF Init, AnyDiff
  <1>3. Recorded(ledger, diff, touched, HeadNow)
    <2>1. ledger.entries = {} /\ ledger \in AnyLedger /\ Open(ledger) = {}
      BY DEF Init, EmptyLedger, AnyLedger, AnyBase, Open
    <2> QED
      BY <2>1, FS_EmptySet DEF Recorded, Unique, Located, Measured
  <1>4. CodeOK /\ Alone /\ resolve = Idle
        /\ review = [i \in Reviewers |-> review[i]] /\ \A i \in Reviewers : review[i] = Idle
    BY <1>1, <1>2 DEF Init, CodeOK, Alone
  <1> QED
    BY <1>3, <1>4 DEF MemoryInv, Holds

(* Every step keeps the invariant. *)
LEMMA NextMemory == ASSUME LedgerAssumption, ~Overlap, MemoryInv, [Next]_vars PROVE MemoryInv'
  <1>1. CASE UNCHANGED vars
    <2>1. /\ diff' = diff /\ bases' = bases /\ touched' = touched /\ ledger' = ledger
          /\ review' = review /\ resolve' = resolve /\ HeadNow' = HeadNow
      BY <1>1 DEF vars, HeadNow
    <2>2. CodeOK' /\ Alone' /\ Recorded(ledger', diff', touched', HeadNow')
      BY <2>1 DEF MemoryInv, CodeOK, Alone
    <2>3. \A i \in Reviewers : Holds(i)'
      BY <2>1 DEF MemoryInv, Holds, ReadOK, FoldedOK
    <2> QED
      BY <2>1, <2>2, <2>3 DEF MemoryInv
  <1>2. CASE Author
    BY <1>2, AuthorKeeps
  <1>3. ASSUME NEW i \in Reviewers, ReviewStep(i) PROVE MemoryInv'
    <2>1. CASE WebhookReview(i) \/ CommandReview(i)
      BY <2>1, ReviewReads, ReadKeeps DEF MemoryInv
    <2>2. CASE Fold(i)
      BY <2>2, FoldKeeps
    <2>3. CASE Post(i)
      BY <2>3, PostKeeps
    <2>4. CASE Save(i) \/ Drop(i)
      BY <2>4, EndKeeps
    <2> QED
      BY <1>3, <2>1, <2>2, <2>3, <2>4 DEF ReviewStep
  <1>4. CASE ResolveRead \/ ResolveSave
    BY <1>4, ResolveKeeps
  <1> QED
    BY <1>1, <1>2, <1>3, <1>4 DEF Next

(* The invariant holds while the ledger has one writer at a time. *)
LEMMA MemoryInvariant == ASSUME LedgerAssumption, ~Overlap PROVE Spec => []MemoryInv
  <1>1. Init => MemoryInv
    BY InitMemory
  <1>2. MemoryInv /\ [Next]_vars => MemoryInv'
    BY NextMemory
  <1> QED
    BY <1>1, <1>2, PTL DEF Spec

(***************************************************************************)
(* reconcile claims the identity of an open entry before it opens another: *)
(* no finding of a file is open twice.                                     *)
(***************************************************************************)
THEOREM OpenedOnce == ASSUME LedgerAssumption, ~Overlap PROVE Spec => []OpenOnce
  <1>1. MemoryInv => OpenOnce
    BY DEF MemoryInv, Recorded, Unique, OpenOnce, SameFinding, SameDefect
  <1> QED
    BY <1>1, MemoryInvariant, PTL

(* A review holds a folded ledger only once it has folded it. *)
LEMMA OnlyFolds ==
  ASSUME MemoryInv, [Next]_vars, NEW i \in Reviewers, review[i].at = "read", review'[i].at = "folded"
  PROVE  Fold(i)
  <1>1. review[i].at = "read" /\ review'[i].at = "folded"
    OBVIOUS
  <1>2. review = [j \in Reviewers |-> review[j]]
    BY DEF MemoryInv
  <1>3. Fold(i)
    <2>1. CASE UNCHANGED vars \/ Author \/ ResolveRead \/ ResolveSave
      <3>1. review' = review
        BY <2>1 DEF vars, Author, Push, Rename, Rebase, ResolveRead, ResolveSave
      <3> QED
        BY <1>1, <3>1
    <2>2. ASSUME NEW j \in Reviewers, WebhookReview(j) \/ CommandReview(j) \/ Post(j) \/ Save(j) \/ Drop(j)
          PROVE  FALSE
      <3>1. CASE j # i
        <4>1. review'[i] = review[i]
          BY <1>2, <2>2, <3>1 DEF WebhookReview, CommandReview, ReadDiff, Post, Save, Drop
        <4> QED
          BY <1>1, <4>1
      <3>2. CASE j = i
        BY <1>1, <1>2, <2>2, <3>2 DEF WebhookReview, CommandReview, ReadDiff, Post, Save, Drop, Idle
      <3> QED
        BY <3>1, <3>2
    <2>3. ASSUME NEW j \in Reviewers, Fold(j), j # i PROVE FALSE
      <3>1. review'[i] = review[i]
        BY <1>2, <2>3 DEF Fold, FoldInto
      <3> QED
        BY <1>1, <3>1
    <2> QED
      BY <2>1, <2>2, <2>3 DEF Next, ReviewStep
  <1> QED
    BY <1>3

(***************************************************************************)
(* reconcile, savePrLedger and clearLedger: what a review raises is open   *)
(* on its record, and what was open is open, reported resolved or          *)
(* dismissed after every write of the ledger.                              *)
(***************************************************************************)
THEOREM OpenIsKept == ASSUME LedgerAssumption, ~Overlap PROVE Spec => NothingForgotten
  <1> DEFINE Held(e) ==
               \/ \E e2 \in Open(ledger') : SameDefect(e, e2)
               \/ \E i \in Reviewers :
                    /\ review[i].at = "posted" /\ ledger' = review[i].next
                    /\ \E e2 \in review[i].resolved :
                         SameDefect(e, e2) /\ (e2 \in ledger'.entries \/ Full(ledger'))
               \/ /\ resolve.at = "read" /\ ledger' = DismissAll(resolve.ledger)
                  /\ \E e2 \in ledger'.entries : SameDefect(e, e2) /\ e2.state = "dismissed"
             Raised(i) == review[i].at = "read" /\ review'[i].at = "folded" =>
                            \A f \in review[i].findings : \E e \in Open(review'[i].next) : SameFinding(e, f)
             A == /\ \A i \in Reviewers :
                       review[i].at = "read" /\ review'[i].at = "folded" =>
                         \A f \in review[i].findings : \E e \in Open(review'[i].next) : SameFinding(e, f)
                  /\ \A e \in Open(ledger) :
                       \/ \E e2 \in Open(ledger') : SameDefect(e, e2)
                       \/ \E i \in Reviewers :
                            /\ review[i].at = "posted" /\ ledger' = review[i].next
                            /\ \E e2 \in review[i].resolved :
                                 SameDefect(e, e2) /\ (e2 \in ledger'.entries \/ Full(ledger'))
                       \/ /\ resolve.at = "read" /\ ledger' = DismissAll(resolve.ledger)
                          /\ \E e2 \in ledger'.entries : SameDefect(e, e2) /\ e2.state = "dismissed"
  <1>1a. ASSUME MemoryInv, [Next]_vars, NEW i \in Reviewers PROVE Raised(i)
    <2> SUFFICES ASSUME review[i].at = "read", review'[i].at = "folded", NEW f \in review[i].findings
                 PROVE  \E e \in Open(review'[i].next) : SameFinding(e, f)
      OBVIOUS
    <2>1. Fold(i)
      BY <1>1a, OnlyFolds
    <2>2. PICK prior \in {ledger, EmptyLedger}, known \in BOOLEAN : FoldInto(i, prior, known)
      BY <2>1 DEF Fold
    <2>3. PICK land \in [Spots -> Spots] : Folding(i, prior, known, land)
      BY <1>1a, <2>2, FoldsInto
    <2> DEFINE v == review[i]
    <2>4. Readable(prior, v.findings, v.diff, v.sha, v.base, land)
      <3>1. Readable(ledger, v.findings, v.diff, v.sha, v.base, land)
        BY <1>1a, FoldsRecord
      <3>2. EmptyLedger \in AnyLedger /\ EmptyLedger.entries = {} /\ IsFiniteSet({}) /\ Open(EmptyLedger) = {}
        BY FS_EmptySet DEF EmptyLedger, AnyLedger, AnyBase, Open
      <3> QED
        BY <2>2, <3>1, <3>2 DEF Readable, Unique, Located
    <2>5. review'[i].next = Reconcile(prior, v.findings, v.diff, v.sha, v.base, land)
      BY <2>3 DEF Folding
    <2> QED
      BY <2>4, <2>5, Raises
  <1>1. MemoryInv /\ [Next]_vars => A
    <2> SUFFICES ASSUME MemoryInv, [Next]_vars, NEW e \in Open(ledger) PROVE Held(e)
      BY <1>1a
    <2>1. \/ ledger' = ledger
          \/ \E i \in Reviewers : review[i].at = "posted" /\ review[i].known /\ ledger' = review[i].next
          \/ resolve.at = "read" /\ ledger' = DismissAll(resolve.ledger)
      <3>1. CASE UNCHANGED vars \/ Author \/ ResolveRead
        BY <3>1 DEF vars, Author, Push, Rename, Rebase, ResolveRead
      <3>2. ASSUME NEW i \in Reviewers, ReviewStep(i)
            PROVE  ledger' = ledger \/ (review[i].at = "posted" /\ review[i].known /\ ledger' = review[i].next)
        BY <3>2 DEF ReviewStep, WebhookReview, CommandReview, ReadDiff, Fold, Post, Save, Drop
      <3>3. CASE ResolveSave
        BY <3>3 DEF ResolveSave
      <3> QED
        BY <3>1, <3>2, <3>3 DEF Next
    <2>2. CASE ledger' = ledger
      BY <2>2 DEF Open, SameDefect
    <2>3. ASSUME NEW i \in Reviewers, review[i].at = "posted", review[i].known, ledger' = review[i].next
          PROVE  Held(e)
      <3>1. FoldedOK(i)
        BY <2>3 DEF MemoryInv, Holds, Idle
      <3> QED
        BY <2>3, <3>1 DEF FoldedOK, Answered
    <2>4. CASE resolve.at = "read" /\ ledger' = DismissAll(resolve.ledger)
      <3>1. resolve.ledger = ledger
        BY <2>4 DEF MemoryInv, Idle
      <3>2. \E e2 \in DismissAll(ledger).entries : SameDefect(e, e2) /\ e2.state = "dismissed"
        BY Dismisses DEF MemoryInv
      <3> QED
        BY <2>4, <3>1, <3>2
    <2> QED
      BY <2>1, <2>2, <2>3, <2>4
  <1> HIDE DEF A
  <1>2. Spec => [][A]_vars
    BY <1>1, MemoryInvariant, PTL DEF Spec
  <1> QED
    BY <1>2, Zenon DEF A, NothingForgotten

(***************************************************************************)
(* The verdict of a review is green only if it settles, and leaves closed, *)
(* every finding open on the record.                                       *)
(***************************************************************************)
THEOREM GreenIsEarned == ASSUME LedgerAssumption, ~Overlap PROVE Spec => GreenMeansSettled
  <1> DEFINE A == \A i \in Reviewers :
                    /\ review[i].at = "folded" /\ review'[i].at = "posted"
                    /\ review[i].known /\ review[i].check = "success"
                    => Open(review[i].next) = {} /\ \A e \in Open(ledger) : Settled(i, e)
  <1>1. MemoryInv => A
    <2> SUFFICES ASSUME MemoryInv, NEW i \in Reviewers, review[i].at = "folded", review[i].known,
                        review[i].check = "success"
                 PROVE  Open(review[i].next) = {} /\ \A e \in Open(ledger) : Settled(i, e)
      OBVIOUS
    <2>1. FoldedOK(i)
      BY DEF MemoryInv, Holds, Idle
    <2>2. Cleared(ledger, review[i].next, review[i].resolved)
      BY <2>1 DEF FoldedOK
    <2> QED
      BY <2>2, Zenon DEF Cleared, Settled
  <1> HIDE DEF A
  <1>2. Spec => [][A]_vars
    BY <1>1, MemoryInvariant, PTL DEF Spec
  <1> QED
    BY <1>2, Zenon DEF A, GreenMeansSettled

(* Only folding closes an entry, and it closes one of the ledger it read. *)
LEMMA ClosingFolds ==
  ASSUME LedgerAssumption, MemoryInv, [Next]_vars, NEW i \in Reviewers, NEW e \in Open(ledger), NEW reason \in {"fixed", "reverted"},
         ClosedBy(i, e, reason)
  PROVE  \E land :
           LET v == review[i]
           IN  /\ Readable(ledger, v.findings, v.diff, v.sha, v.base, land)
               /\ \E h \in Nat : Recorded(ledger, v.diff, touched, h)
               /\ Outcome(e, ledger, v.findings, v.diff, v.sha, v.base, land).state = reason
  <1> DEFINE v == review[i]
  <1>1. review[i].at = "read" /\ review'[i].at = "folded" /\ review'[i].known
    BY DEF ClosedBy
  <1>2. review = [j \in Reviewers |-> review[j]]
    BY DEF MemoryInv
  <1>3. Fold(i)
    BY <1>1, OnlyFolds
  <1>4. FoldInto(i, ledger, TRUE)
    <2>1. CASE FoldInto(i, EmptyLedger, FALSE)
      <3>1. PICK land : Folding(i, EmptyLedger, FALSE, land)
        BY <1>1, <2>1, FoldsInto
      <3>2. review'[i].known = FALSE
        BY <3>1 DEF Folding
      <3> QED
        BY <1>1, <3>2
    <2> QED
      BY <1>3, <2>1 DEF Fold
  <1>5. PICK land \in [Spots -> Spots] : Folding(i, ledger, TRUE, land)
    BY <1>1, <1>4, FoldsInto
  <1> DEFINE next == Reconcile(ledger, v.findings, v.diff, v.sha, v.base, land)
  <1>6. review'[i].next = next
    BY <1>5 DEF Folding
  <1>7. /\ Readable(ledger, v.findings, v.diff, v.sha, v.base, land)
        /\ \E h \in Nat : Recorded(ledger, v.diff, touched, h)
    BY <1>1, FoldsRecord
  <1>8. PICK e2 \in next.entries : SameDefect(e, e2) /\ e2.state = reason /\ e2 \notin ledger.entries
    <2> HIDE DEF next
    <2> QED
      BY <1>6 DEF ClosedBy
  <1>9. e2 = Outcome(e, ledger, v.findings, v.diff, v.sha, v.base, land)
    BY <1>7, <1>8, ClosedWas
  <1> QED
    BY <1>7, <1>8, <1>9

(***************************************************************************)
(* Rule 1 of ledger.ts: an open finding is fixed only if its file was      *)
(* touched after it was last raised, or it was off the diff.               *)
(***************************************************************************)
THEOREM SilenceClearsNothing == ASSUME LedgerAssumption, ~Overlap PROVE Spec => NeverClearedBySilence
  <1> DEFINE A == \A i \in Reviewers : \A e \in Open(ledger) :
                    ClosedBy(i, e, "fixed") /\ MeasuredBase(i) =>
                      TouchedSince(e.path[1], e.lastSeen) \/ e.fileDigest = NoDigest
  <1>1. MemoryInv /\ [Next]_vars => A
    <2> SUFFICES ASSUME MemoryInv, [Next]_vars, NEW i \in Reviewers, NEW e \in Open(ledger),
                        ClosedBy(i, e, "fixed"), MeasuredBase(i)
                 PROVE  TouchedSince(e.path[1], e.lastSeen) \/ e.fileDigest = NoDigest
      OBVIOUS
    <2> DEFINE v == review[i]
    <2>1. PICK land : /\ Readable(ledger, v.findings, v.diff, v.sha, v.base, land)
                      /\ \E h \in Nat : Recorded(ledger, v.diff, touched, h)
                      /\ Outcome(e, ledger, v.findings, v.diff, v.sha, v.base, land).state = "fixed"
      BY ClosingFolds
    <2>2. touched \in Touches
      BY DEF MemoryInv, CodeOK, Touches, HeadNow
    <2> QED
      BY <2>1, <2>2, FixedWasTouched DEF MeasuredBase, TouchedSince
  <1> HIDE DEF A
  <1>2. Spec => [][A]_vars
    BY <1>1, MemoryInvariant, PTL DEF Spec
  <1> QED
    BY <1>2, Zenon DEF A, NeverClearedBySilence

(***************************************************************************)
(* An entry is reverted only if its file has left the pull request.        *)
(***************************************************************************)
THEOREM RevertedIsGone == ASSUME LedgerAssumption, ~Overlap PROVE Spec => RevertedOnlyIfGone
  <1> DEFINE A == \A i \in Reviewers : \A e \in Open(ledger) :
                    ClosedBy(i, e, "reverted") => ~InDiff(review[i].diff, PathOf(review[i].diff, e.path[1]))
  <1>1. MemoryInv /\ [Next]_vars => A
    <2> SUFFICES ASSUME MemoryInv, [Next]_vars, NEW i \in Reviewers, NEW e \in Open(ledger),
                        ClosedBy(i, e, "reverted")
                 PROVE  ~InDiff(review[i].diff, PathOf(review[i].diff, e.path[1]))
      OBVIOUS
    <2> DEFINE v == review[i]
               path == PathOf(v.diff, e.path[1])
    <2>1. PICK land : /\ Readable(ledger, v.findings, v.diff, v.sha, v.base, land)
                      /\ Outcome(e, ledger, v.findings, v.diff, v.sha, v.base, land).state = "reverted"
      BY ClosingFolds
    <2>2. IsOpen(e) /\ e \in ledger.entries
      BY DEF Open
    <2>3. FileDigest(v.diff, path) = NoDigest /\ e.path[1] \in Files /\ v.diff \in AnyDiff
      <3>1. e \in AnyEntry /\ FileDigest(v.diff, path) = NoDigest
        BY <2>1, <2>2, Outcomes
      <3>2. e.path \in Paths /\ v.diff \in AnyDiff
        BY <2>1, <3>1 DEF Readable, AnyEntry
      <3> QED
        BY <3>1, <3>2 DEF Paths
    <2>4. path \in Paths
      BY <2>3 DEF PathOf, Paths
    <2> QED
      BY <2>3, <2>4, FileMeasures
  <1> HIDE DEF A
  <1>2. Spec => [][A]_vars
    BY <1>1, MemoryInvariant, PTL DEF Spec
  <1> QED
    BY <1>2, Zenon DEF A, RevertedOnlyIfGone
=============================================================================
