---------------------------- MODULE Review_proof ----------------------------
(***************************************************************************)
(* Proofs about what starts a review, what it reads and what it leaves     *)
(* behind: that no event the host has sent is missed and none taken twice  *)
(* (Triggers), that a narrowed re-review leaves no file unread             *)
(* (ReviewScope), and that no sandbox outlives a proof that it is gone     *)
(* (Findings).                                                             *)
(***************************************************************************)
EXTENDS Triggers, ReviewScope, FiniteSetTheorems, WellFoundedInduction, TLAPS

(* The findings of a review are a part of their own, for any constants. *)
CONSTANTS Diffs, ScannerFindings, AgentReplies, SingleReplies, NoReply, ImpactFindings, CiFindings, RuleBreaks,
          Learned, MaxSourceFiles
VARIABLES stage, findings, learned, diffed, readable, backend, rule, queue, surfaced, suppressed, alive, checks, raised, gone

N == INSTANCE Findings

-----------------------------------------------------------------------------
(***************************************************************************)
(* What a review reads.  A version of a file is given by one commit, and   *)
(* only a forced push takes a head back to what an earlier commit gave.    *)
(* So what still waits to be read was given by a commit that the recorded  *)
(* head has not, and the comparison with the recorded head shows it.       *)
(***************************************************************************)
\* When a version was given (MergeBase gives two at once).
Since(v) == IF v > MaxCommits THEN v - MaxCommits ELSE v

Version == [id : Nat, snap : [Files -> Nat]]
Ids(h) == {h[i].id : i \in 1..Len(h)}
CommitsOf(h) == {h[i] : i \in 1..Len(h)}

\* The heads somebody still speaks of.
Spoken == {chain, recorded.head} \cup (IF run.at = "idle" THEN {} ELSE {run.head})

HeadOK(h, now) ==
  /\ h \in Seq(Version)
  /\ \A i, j \in 1..Len(h) : i < j => h[i].id < h[j].id
  /\ h # NoHead => h[1].id = 0
  /\ \A i \in 1..Len(h) : h[i].id <= now /\ \A f \in Files : Since(h[i].snap[f]) <= h[i].id

HeadsInv ==
  /\ clock \in Nat /\ base \in [Files -> Nat] /\ \A f \in Files : Since(base[f]) <= clock
  /\ chain # NoHead /\ (run.at # "idle" => run.head # NoHead)
  /\ \A h \in Spoken : HeadOK(h, clock)
  /\ \A g, h \in Spoken : \A c \in CommitsOf(g), d \in CommitsOf(h) : c.id = d.id => c = d
  /\ run.at \in {"idle", "fetch", "post"}

\* The last commit that touched this file has not been read.
Waits(f) ==
  f \in VerdictDiff(chain) \ (excluded \cup widened) /\ Top(chain)[f] \notin read[f]

WaitsInv ==
  /\ \A f \in Files : Waits(f) =>
       /\ Since(Top(chain)[f]) \in Ids(chain) \ Ids(recorded.head)
       /\ run.at = "fetch" /\ Since(Top(chain)[f]) \in Ids(run.head) => Top(run.head)[f] = Top(chain)[f]
       /\ run.at = "post" => Since(Top(chain)[f]) \notin Ids(run.head)
  /\ run.at = "fetch" => run.exclude \ excluded \subseteq widened

ScopeInv == HeadsInv /\ WaitsInv

\* A version below the bound was given when it says, one above it by a merge.
LEMMA SinceWhen ==
  ASSUME ReviewScopeAssumption
  PROVE  /\ \A v \in Nat : Since(v) \in Nat
         /\ \A v \in Nat : v <= MaxCommits => Since(v) = v
         /\ \A v \in Nat : v > 0 => Since(v + MaxCommits) = v
  BY DEF Since, ReviewScopeAssumption

\* A commit of a head has an id, no later than now, and its files' versions.
LEMMA Typed ==
  ASSUME NEW h, NEW now, HeadOK(h, now), NEW i \in 1..Len(h)
  PROVE  h[i] \in Version /\ h[i].id \in Nat /\ h[i].id <= now /\ \A f \in Files : h[i].snap[f] \in Nat
  <1>1. h[i] \in Version /\ h[i].id <= now
    <2>1. h \in Seq(Version)
      BY DEF HeadOK
    <2>2. h[i].id <= now
      BY Zenon DEF HeadOK
    <2> HIDE DEF Version
    <2> QED
      BY <2>1, <2>2
  <1> QED
    BY <1>1 DEF Version

\* A head's commits are in the order of their time.
LEMMA InOrder ==
  ASSUME NEW h, NEW now, HeadOK(h, now), NEW i \in 1..Len(h), NEW j \in 1..Len(h), h[i].id <= h[j].id
  PROVE  i <= j
  <1>1. h[i].id \in Nat /\ h[j].id \in Nat
    BY Typed
  <1>2. j < i => h[j].id < h[i].id
    BY Zenon DEF HeadOK
  <1> QED
    BY <1>1, <1>2

\* A head of which some commits stay and one is new.
LEMMA Grown ==
  ASSUME ReviewScopeAssumption, NEW h, NEW now \in Nat, HeadOK(h, now), NEW keep \in 1..Len(h),
         NEW c \in Version, c.id = now + 1, \A f \in Files : Since(c.snap[f]) <= c.id
  PROVE  LET g == Append(SubSeq(h, 1, keep), c) IN
         /\ HeadOK(g, now + 1) /\ g # NoHead
         /\ Len(g) = keep + 1 /\ g[keep + 1] = c /\ \A i \in 1..keep : g[i] = h[i]
  <1> DEFINE s == SubSeq(h, 1, keep)
             g == Append(s, c)
  <1>1. h \in Seq(Version) /\ Len(h) \in Nat /\ keep \in Nat /\ keep >= 1 /\ keep <= Len(h)
    BY DEF HeadOK
  <1>2. s \in Seq(Version) /\ Len(s) = keep /\ \A i \in 1..keep : s[i] = h[i]
    BY <1>1
  <1>3. g \in Seq(Version) /\ Len(g) = keep + 1 /\ g[keep + 1] = c /\ \A i \in 1..keep : g[i] = h[i]
    BY <1>1, <1>2
  <1> HIDE DEF g
  <1>4. \A i \in 1..Len(h) : h[i].id \in Nat /\ h[i].id <= now
    BY Typed
  <1>5. \A i, j \in 1..Len(g) : i < j => g[i].id < g[j].id
    <2> SUFFICES ASSUME NEW i \in 1..(keep + 1), NEW j \in 1..(keep + 1), i < j PROVE g[i].id < g[j].id
      BY <1>3
    <2>1. i \in 1..keep /\ g[i] = h[i] /\ i \in 1..Len(h)
      BY <1>1, <1>3
    <2>2. CASE j = keep + 1
      BY <1>3, <1>4, <2>1, <2>2
    <2>3. CASE j # keep + 1
      <3>1. j \in 1..keep /\ g[j] = h[j] /\ j \in 1..Len(h)
        BY <1>1, <1>3, <2>3
      <3> QED
        BY <2>1, <3>1 DEF HeadOK
    <2> QED
      BY <2>2, <2>3
  <1>6. \A i \in 1..Len(g) : g[i].id <= now + 1 /\ \A f \in Files : Since(g[i].snap[f]) <= g[i].id
    <2> SUFFICES ASSUME NEW i \in 1..(keep + 1)
                 PROVE  g[i].id <= now + 1 /\ \A f \in Files : Since(g[i].snap[f]) <= g[i].id
      BY <1>3
    <2>1. CASE i = keep + 1
      BY <1>3, <2>1
    <2>2. CASE i # keep + 1
      <3>1. i \in 1..keep /\ g[i] = h[i] /\ i \in 1..Len(h)
        BY <1>1, <1>3, <2>2
      <3>2. h[i].id <= now /\ h[i].id \in Nat /\ \A f \in Files : Since(h[i].snap[f]) <= h[i].id
        BY <3>1, <1>4 DEF HeadOK
      <3> QED
        BY <3>1, <3>2
    <2> QED
      BY <2>1, <2>2
  <1>7. g # NoHead /\ g[1].id = 0
    <2>1. h # NoHead /\ 1 \in 1..keep
      BY <1>1 DEF NoHead
    <2> QED
      BY <1>1, <1>3, <2>1 DEF HeadOK, NoHead
  <1>8. HeadOK(g, now + 1)
    BY <1>3, <1>5, <1>6, <1>7 DEF HeadOK
  <1> QED
    BY <1>3, <1>7, <1>8 DEF g

\* The heads stay in order when one is dropped or one of them grows.
LEMMA HeadsOn ==
  ASSUME HeadsInv, NEW g, clock' \in Nat, clock <= clock',
         Spoken' \subseteq Spoken \cup {g}, HeadOK(g, clock'),
         \A c \in CommitsOf(g) : c \in CommitsOf(chain) \/ c.id > clock
  PROVE  /\ \A h \in Spoken' : HeadOK(h, clock')
         /\ \A h, k \in Spoken' : \A c \in CommitsOf(h), d \in CommitsOf(k) : c.id = d.id => c = d
  <1>1. chain \in Spoken /\ clock \in Nat
    BY DEF Spoken, HeadsInv
  <1>2. ASSUME NEW h, HeadOK(h, clock) PROVE HeadOK(h, clock')
    <2>1. \A i \in 1..Len(h) : h[i].id <= clock /\ h[i].id \in Nat
      BY <1>2, Typed
    <2>2. \A i \in 1..Len(h) : h[i].id <= clock'
      BY <1>1, <2>1
    <2> QED
      BY <1>2, <2>2 DEF HeadOK
  <1>3. \A h \in Spoken' : HeadOK(h, clock')
    BY <1>2 DEF HeadsInv
  <1>4. \A c, d \in CommitsOf(g) : c.id = d.id => c = d
    <2> SUFFICES ASSUME NEW i \in 1..Len(g), NEW j \in 1..Len(g), g[i].id = g[j].id PROVE i = j
      BY DEF CommitsOf
    <2>1. g[i].id \in Nat /\ g[j].id \in Nat
      BY Typed
    <2>2. i <= j /\ j <= i
      BY <2>1, InOrder
    <2> QED
      BY <2>2
  <1>5. ASSUME NEW h \in Spoken, NEW c \in CommitsOf(g), NEW d \in CommitsOf(h), c.id = d.id
        PROVE  c = d
    <2>1. HeadOK(h, clock)
      BY DEF HeadsInv
    <2>2. d.id <= clock /\ d.id \in Nat
      BY <2>1, Typed DEF CommitsOf
    <2>3. ~(d.id > clock)
      BY <1>1, <2>2
    <2>4. c \in CommitsOf(chain)
      BY <1>5, <2>3
    <2> QED
      BY <1>1, <1>5, <2>4 DEF HeadsInv
  <1>6. ASSUME NEW h \in Spoken \cup {g}, NEW k \in Spoken \cup {g}, NEW c \in CommitsOf(h), NEW d \in CommitsOf(k), c.id = d.id
        PROVE  c = d
    <2>1. CASE h \in Spoken /\ k \in Spoken
      BY <1>6, <2>1 DEF HeadsInv
    <2>2. CASE h = g /\ k \in Spoken
      BY <1>5, <1>6, <2>2
    <2>3. CASE h \in Spoken /\ k = g
      BY <1>5, <1>6, <2>3
    <2>4. CASE h = g /\ k = g
      BY <1>4, <1>6, <2>4
    <2> QED
      BY <2>1, <2>2, <2>3, <2>4
  <1> QED
    BY <1>3, <1>6

\* Nothing that a step leaves alone disturbs the heads.
LEMMA HeadsAlone ==
  ASSUME ReviewScopeAssumption, HeadsInv, clock' \in Nat, clock <= clock', UNCHANGED <<base, chain>>, Spoken' \subseteq Spoken,
         run'.at \in {"idle", "fetch", "post"}, run'.at # "idle" => run'.head \in Spoken \ {NoHead}
  PROVE  HeadsInv'
  <1>1. HeadOK(chain, clock) /\ clock \in Nat /\ chain \in Spoken
    BY DEF HeadsInv, Spoken
  <1>2. HeadOK(chain, clock')
    <2>1. \A i \in 1..Len(chain) : chain[i].id <= clock'
      BY <1>1, Typed
    <2> QED
      BY <1>1, <2>1 DEF HeadOK
  <1>3. /\ \A h \in Spoken' : HeadOK(h, clock')
        /\ \A h, k \in Spoken' : \A c \in CommitsOf(h), d \in CommitsOf(k) : c.id = d.id => c = d
    BY <1>2, HeadsOn
  <1>4. base' \in [Files -> Nat] /\ \A f \in Files : Since(base'[f]) <= clock'
    <2>1. \A f \in Files : Since(base[f]) \in Nat /\ Since(base[f]) <= clock
      BY SinceWhen DEF HeadsInv
    <2> QED
      BY <1>1, <2>1 DEF HeadsInv
  <1> QED
    BY <1>3, <1>4 DEF HeadsInv

\* The heads at the start.
LEMMA HeadsFirst == ReviewScopeAssumption /\ Init => HeadsInv
  <1> SUFFICES ASSUME ReviewScopeAssumption, Init PROVE HeadsInv
    OBVIOUS
  <1>1. PICK changed \in SUBSET Files :
          chain = <<[id |-> 0, snap |-> base], [id |-> 1, snap |-> [f \in Files |-> IF f \in changed THEN 1 ELSE 0]]>>
    BY DEF Init
  <1> DEFINE c0 == [id |-> 0, snap |-> base]
             c1 == [id |-> 1, snap |-> [f \in Files |-> IF f \in changed THEN 1 ELSE 0]]
  <1>2. base = [f \in Files |-> 0] /\ clock = 1 /\ run.at = "idle" /\ recorded.head = NoHead
    BY DEF Init, Idle
  <1>3. Since(0) = 0 /\ Since(1) = 1
    BY DEF Since, ReviewScopeAssumption
  <1>4. c0 \in Version /\ c1 \in Version
    BY <1>2 DEF Version
  <1>5. /\ c0.id = 0 /\ c1.id = 1
        /\ \A f \in Files : Since(c0.snap[f]) = 0 /\ Since(c1.snap[f]) <= 1
    BY <1>2, <1>3
  <1>6. chain = <<c0, c1>>
    BY <1>1
  <1> HIDE DEF c0, c1
  <1>7. HeadOK(chain, 1) /\ chain # NoHead
    <2>1. chain \in Seq(Version) /\ Len(chain) = 2 /\ chain[1] = c0 /\ chain[2] = c1
      BY <1>4, <1>6
    <2> QED
      BY <1>5, <2>1 DEF HeadOK, NoHead
  <1>8. HeadOK(NoHead, 1) /\ CommitsOf(NoHead) = {}
    BY DEF HeadOK, NoHead, CommitsOf
  <1>9. Spoken = {chain, NoHead}
    BY <1>2 DEF Spoken
  <1>10. \A c, d \in CommitsOf(chain) : c.id = d.id => c = d
    <2>1. CommitsOf(chain) = {c0, c1}
      BY <1>6 DEF CommitsOf
    <2> QED
      BY <1>5, <2>1
  <1>11. base \in [Files -> Nat] /\ \A f \in Files : Since(base[f]) <= clock
    BY <1>2, <1>3
  <1> QED
    BY <1>2, <1>7, <1>8, <1>9, <1>10, <1>11 DEF HeadsInv

\* A head that grows by a commit, and the target branch with it.
LEMMA HeadsGrow ==
  ASSUME ReviewScopeAssumption, HeadsInv, NEW keep \in 1..Len(chain), NEW c \in Version,
         c.id = clock + 1, \A f \in Files : Since(c.snap[f]) <= c.id,
         clock' = clock + 1, chain' = Append(SubSeq(chain, 1, keep), c),
         base' \in [Files -> Nat], \A f \in Files : Since(base'[f]) <= clock',
         UNCHANGED <<recorded, run>>
  PROVE  /\ HeadsInv'
         /\ Top(chain') = c.snap /\ clock + 1 \in Ids(chain')
         /\ \A h \in {recorded.head} \cup (IF run.at = "idle" THEN {} ELSE {run.head}) : clock + 1 \notin Ids(h)
         /\ \A i \in 1..keep : chain[i].id \in Ids(chain')
  <1>1. HeadOK(chain, clock) /\ clock \in Nat
    BY DEF HeadsInv, Spoken
  <1>2. /\ HeadOK(chain', clock + 1) /\ chain' # NoHead
        /\ Len(chain') = keep + 1 /\ chain'[keep + 1] = c /\ \A i \in 1..keep : chain'[i] = chain[i]
    BY <1>1, Grown
  <1>3. keep \in Nat /\ keep >= 1 /\ keep <= Len(chain) /\ Len(chain) \in Nat
    BY <1>1 DEF HeadOK
  <1>4. \A d \in CommitsOf(chain') : d \in CommitsOf(chain) \/ d.id > clock
    <2> SUFFICES ASSUME NEW i \in 1..(keep + 1) PROVE chain'[i] \in CommitsOf(chain) \/ chain'[i].id > clock
      BY <1>2 DEF CommitsOf
    <2>1. CASE i = keep + 1
      BY <1>1, <1>2, <2>1
    <2>2. CASE i # keep + 1
      <3>1. i \in 1..keep /\ i \in 1..Len(chain)
        BY <1>3, <2>2
      <3> QED
        BY <1>2, <3>1 DEF CommitsOf
    <2> QED
      BY <2>1, <2>2
  <1>5. Spoken' \subseteq Spoken \cup {chain'}
    BY DEF Spoken
  <1>6. /\ \A h \in Spoken' : HeadOK(h, clock')
        /\ \A h, k \in Spoken' : \A d, e : d \in CommitsOf(h) /\ e \in CommitsOf(k) /\ d.id = e.id => d = e
    <2>1. clock' \in Nat /\ clock <= clock' /\ HeadOK(chain', clock')
      BY <1>1, <1>2
    <2> QED
      BY <1>4, <1>5, <2>1, HeadsOn
  <1>7. HeadsInv'
    <2>1. clock' \in Nat
      BY <1>1
    <2> QED
      BY <1>2, <1>6, <2>1 DEF HeadsInv
  <1>8. Top(chain') = c.snap
    BY <1>2 DEF Top
  <1>9. clock + 1 \in Ids(chain') /\ \A i \in 1..keep : chain[i].id \in Ids(chain')
    <2>1. keep + 1 \in 1..Len(chain') /\ \A i \in 1..keep : i \in 1..Len(chain')
      BY <1>2, <1>3
    <2> QED
      BY <1>2, <2>1 DEF Ids
  <1>10. ASSUME NEW h \in Spoken PROVE clock + 1 \notin Ids(h)
    <2>1. HeadOK(h, clock)
      BY DEF HeadsInv
    <2>2. \A i \in 1..Len(h) : h[i].id \in Nat /\ h[i].id <= clock
      BY <2>1, Typed
    <2> QED
      BY <1>1, <2>2 DEF Ids
  <1> QED
    BY <1>7, <1>8, <1>9, <1>10 DEF Spoken

\* What a commit on this one of the head's makes of each file.
Makes(snap, keep, changed, reverted) ==
  \A f \in Files :
    \/ f \in changed /\ snap[f] = clock + 1
    \/ snap[f] = base[f]
    \/ f \notin changed \cup reverted /\ snap[f] = chain[keep].snap[f]

\* A commit, a merge of the target branch.
LEMMA CommitGrows ==
  ASSUME ReviewScopeAssumption, HeadsInv, NEW keep \in 1..Len(chain), NEW changed \in SUBSET Files,
         NEW reverted \in SUBSET Files, Commit(keep, changed, reverted)
  PROVE  \E c \in Version :
           /\ c.id = clock + 1 /\ \A f \in Files : Since(c.snap[f]) <= c.id
           /\ chain' = Append(SubSeq(chain, 1, keep), c) /\ clock' = clock + 1
           /\ Makes(c.snap, keep, changed, reverted)
  <1> DEFINE s == [f \in Files |-> CASE f \in changed -> clock + 1
                                     [] f \in reverted -> base[f]
                                     [] OTHER -> chain[keep].snap[f]]
             c == [id |-> clock + 1, snap |-> s]
  <1>1. /\ clock \in Nat /\ HeadOK(chain, clock) /\ clock + 1 <= MaxCommits
        /\ \A f \in Files : base[f] \in Nat /\ Since(base[f]) <= clock
    BY DEF HeadsInv, Spoken, Commit, ReviewScopeAssumption
  <1>2. \A f \in Files : chain[keep].snap[f] \in Nat /\ Since(chain[keep].snap[f]) <= clock
    <2>1. chain[keep].id \in Nat /\ chain[keep].id <= clock /\ \A f \in Files : chain[keep].snap[f] \in Nat
      BY <1>1, Typed
    <2>2. \A f \in Files : Since(chain[keep].snap[f]) <= chain[keep].id
      BY <1>1, Zenon DEF HeadOK
    <2>3. \A f \in Files : Since(chain[keep].snap[f]) \in Nat
      BY <2>1, SinceWhen
    <2> QED
      BY <1>1, <2>1, <2>2, <2>3
  <1>3. \A f \in Files : /\ f \in changed => s[f] = clock + 1
                         /\ f \notin changed /\ f \in reverted => s[f] = base[f]
                         /\ f \notin changed /\ f \notin reverted => s[f] = chain[keep].snap[f]
    <2>1. changed \cap reverted = {}
      BY DEF Commit
    <2> SUFFICES ASSUME NEW f \in Files
                 PROVE  /\ f \in changed => s[f] = clock + 1
                        /\ f \notin changed /\ f \in reverted => s[f] = base[f]
                        /\ f \notin changed /\ f \notin reverted => s[f] = chain[keep].snap[f]
      OBVIOUS
    <2>2. CASE f \in changed
      <3>1. f \notin reverted
        BY <2>1, <2>2
      <3> QED
        BY <2>2, <3>1
    <2>3. CASE f \notin changed
      BY <2>3
    <2> QED
      BY <2>2, <2>3
  <1>4. chain' = Append(SubSeq(chain, 1, keep), c) /\ clock' = clock + 1
    BY DEF Commit
  <1>5. DOMAIN s = Files /\ s = [f \in Files |-> s[f]]
    OBVIOUS
  <1> HIDE DEF s
  <1>6. Since(clock + 1) = clock + 1
    BY <1>1, SinceWhen
  <1>7. \A f \in Files : s[f] \in Nat /\ Since(s[f]) <= clock + 1
    <2>1. \A f \in Files : Since(base[f]) \in Nat /\ Since(chain[keep].snap[f]) \in Nat
      BY <1>1, <1>2, SinceWhen
    <2> SUFFICES ASSUME NEW f \in Files PROVE s[f] \in Nat /\ Since(s[f]) <= clock + 1
      OBVIOUS
    <2>2. CASE s[f] = clock + 1
      BY <1>1, <1>6, <2>2
    <2>3. CASE s[f] = base[f]
      BY <1>1, <2>1, <2>3
    <2>4. CASE s[f] = chain[keep].snap[f]
      BY <1>1, <1>2, <2>1, <2>4
    <2> QED
      BY <1>3, <2>2, <2>3, <2>4
  <1>8. c \in Version
    <2>1. s \in [Files -> Nat]
      BY <1>5, <1>7
    <2> QED
      BY <1>1, <2>1 DEF Version
  <1>9. \A f \in Files : Since(c.snap[f]) <= c.id
    BY <1>7
  <1>10. Makes(c.snap, keep, changed, reverted)
    BY <1>3 DEF Makes
  <1> QED
    BY <1>4, <1>8, <1>9, <1>10

\* A merge gives a file a new version, the target branch's, or leaves it.
LEMMA MergeGrows ==
  ASSUME ReviewScopeAssumption, HeadsInv, NEW changed \in SUBSET Files, MergeBase(changed)
  PROVE  \E c \in Version :
           /\ c.id = clock + 1 /\ \A f \in Files : Since(c.snap[f]) <= c.id
           /\ chain' = Append(SubSeq(chain, 1, Len(chain)), c) /\ clock' = clock + 1
           /\ base' \in [Files -> Nat] /\ \A f \in Files : Since(base'[f]) <= clock'
           /\ Len(chain) \in 1..Len(chain)
           /\ \A f \in Files :
                \/ c.snap[f] = base'[f]
                \/ Since(c.snap[f]) = clock + 1
                \/ base'[f] = base[f] /\ c.snap[f] = Top(chain)[f]
  <1> DEFINE s == [f \in Files |->
                     CASE f \in changed /\ f \notin VerdictDiff(chain) -> clock + 1
                       [] f \in changed /\ f \in VerdictDiff(chain) -> clock + 1 + MaxCommits
                       [] OTHER -> Top(chain)[f]]
             b == [f \in Files |-> IF f \in changed THEN clock + 1 ELSE base[f]]
             c == [id |-> clock + 1, snap |-> s]
  <1>1. /\ clock \in Nat /\ HeadOK(chain, clock) /\ clock + 1 <= MaxCommits /\ MaxCommits \in Nat
        /\ \A f \in Files : base[f] \in Nat /\ Since(base[f]) <= clock
        /\ chain # NoHead
    BY DEF HeadsInv, Spoken, MergeBase, ReviewScopeAssumption
  <1>2. chain \in Seq(Version) /\ Len(chain) \in 1..Len(chain) /\ SubSeq(chain, 1, Len(chain)) = chain
    <2>1. chain \in Seq(Version) /\ Len(chain) \in Nat /\ Len(chain) # 0
      BY <1>1 DEF HeadOK, NoHead
    <2> QED
      BY <2>1
  <1>3. \A f \in Files : Top(chain)[f] \in Nat /\ Since(Top(chain)[f]) <= clock
    <2> DEFINE n == Len(chain)
    <2>1. chain[n].id \in Nat /\ chain[n].id <= clock /\ \A f \in Files : chain[n].snap[f] \in Nat
      BY <1>1, <1>2, Typed
    <2>2. \A f \in Files : Since(chain[n].snap[f]) <= chain[n].id
      BY <1>1, <1>2, Zenon DEF HeadOK
    <2>3. \A f \in Files : Since(chain[n].snap[f]) \in Nat
      BY <2>1, SinceWhen
    <2> QED
      BY <1>1, <2>1, <2>2, <2>3 DEF Top
  <1>4. base' = b /\ clock' = clock + 1 /\ chain' = Append(chain, c)
    BY DEF MergeBase
  <1>5. \A f \in Files :
          \/ f \in changed /\ s[f] = clock + 1 /\ b[f] = clock + 1
          \/ s[f] = clock + 1 + MaxCommits /\ b[f] = clock + 1
          \/ s[f] = Top(chain)[f] /\ b[f] = base[f]
    <2> SUFFICES ASSUME NEW f \in Files
                 PROVE  \/ f \in changed /\ s[f] = clock + 1 /\ b[f] = clock + 1
                        \/ s[f] = clock + 1 + MaxCommits /\ b[f] = clock + 1
                        \/ s[f] = Top(chain)[f] /\ b[f] = base[f]
      OBVIOUS
    <2>1. b[f] = IF f \in changed THEN clock + 1 ELSE base[f]
      OBVIOUS
    <2>2. CASE f \in changed /\ f \notin VerdictDiff(chain)
      <3>1. s[f] = clock + 1
        BY <2>2, Zenon
      <3> QED
        BY <2>1, <2>2, <3>1
    <2>3. CASE f \in changed /\ f \in VerdictDiff(chain)
      <3>1. s[f] = clock + 1 + MaxCommits
        BY <2>3
      <3> QED
        BY <2>1, <2>3, <3>1
    <2>4. CASE f \notin changed
      <3>1. s[f] = Top(chain)[f]
        BY <2>4
      <3> QED
        BY <2>1, <2>4, <3>1
    <2> QED
      BY <2>2, <2>3, <2>4
  <1>6. DOMAIN s = Files /\ s = [f \in Files |-> s[f]] /\ b = [f \in Files |-> b[f]]
    OBVIOUS
  <1> HIDE DEF s, b
  <1>7. Since(clock + 1) = clock + 1 /\ Since(clock + 1 + MaxCommits) = clock + 1
    BY <1>1, SinceWhen
  <1>8. \A f \in Files : Since(base[f]) \in Nat /\ Since(Top(chain)[f]) \in Nat
    BY <1>1, <1>3, SinceWhen
  <1>9. ASSUME NEW f \in Files
        PROVE  s[f] \in Nat /\ b[f] \in Nat /\ Since(s[f]) <= clock + 1 /\ Since(b[f]) <= clock + 1
    <2>1. CASE s[f] = clock + 1 /\ b[f] = clock + 1
      BY <1>1, <1>7, <2>1
    <2>2. CASE s[f] = clock + 1 + MaxCommits /\ b[f] = clock + 1
      BY <1>1, <1>7, <2>2
    <2>3. CASE s[f] = Top(chain)[f] /\ b[f] = base[f]
      BY <1>1, <1>3, <1>8, <2>3
    <2> QED
      BY <1>5, <2>1, <2>2, <2>3
  <1>10. s \in [Files -> Nat] /\ b \in [Files -> Nat]
    BY <1>6, <1>9
  <1>11. c \in Version
    BY <1>1, <1>10 DEF Version
  <1>12. \A f \in Files : \/ c.snap[f] = base'[f]
                          \/ Since(c.snap[f]) = clock + 1
                          \/ base'[f] = base[f] /\ c.snap[f] = Top(chain)[f]
    BY <1>4, <1>5, <1>7
  <1> QED
    BY <1>2, <1>4, <1>9, <1>10, <1>11, <1>12

-----------------------------------------------------------------------------
\* A comparison of two heads shows a file whose version was given after they
\* parted.
LEMMA CommonIs ==
  ASSUME HeadsInv, NEW from \in Spoken, NEW to \in Spoken, from # NoHead, to # NoHead
  PROVE  /\ Common(from, to) \in 1..Len(from) /\ Common(from, to) \in 1..Len(to)
         /\ \A i \in 1..Common(from, to) : from[i] = to[i]
  <1> DEFINE shared == {n \in 1..Len(from) : n <= Len(to) /\ \A i \in 1..n : from[i].id = to[i].id}
  <1>1. HeadOK(from, clock) /\ HeadOK(to, clock)
    BY DEF HeadsInv
  <1>2. Len(from) \in Nat /\ Len(to) \in Nat /\ Len(from) >= 1 /\ Len(to) >= 1
    <2>1. from \in Seq(Version) /\ to \in Seq(Version)
      BY <1>1 DEF HeadOK
    <2> QED
      BY <2>1 DEF NoHead
  <1>3. 1 \in shared
    <2>1. from[1].id = 0 /\ to[1].id = 0
      BY <1>1, Zenon DEF HeadOK
    <2> QED
      BY <1>2, <2>1
  <1>4. \E n \in shared : \A m \in shared : m <= n
    <2> DEFINE rest == {k \in Nat : Len(from) - k \in shared}
               less == OpToRel(<, Nat)
    <2>1. rest # {} /\ rest \subseteq Nat
      <3>1. Len(from) - 1 \in Nat /\ Len(from) - (Len(from) - 1) = 1
        BY <1>2
      <3> QED
        BY <1>3, <3>1
    <2>2. PICK k \in rest : \A l \in rest : ~(<<l, k>> \in less)
      BY <2>1, NatLessThanWellFounded, WFMin
    <2>3. ASSUME NEW m \in shared PROVE m <= Len(from) - k
      <3>1. m \in Nat /\ Len(from) - m \in Nat /\ Len(from) - (Len(from) - m) = m
        BY <1>2
      <3>2. Len(from) - m \in rest
        BY <3>1
      <3>3. ~(Len(from) - m < k)
        BY <2>2, <3>1, <3>2 DEF OpToRel
      <3> QED
        BY <1>2, <3>1, <3>3
    <2> QED
      BY <2>3
  <1>5. Common(from, to) \in shared
    BY <1>4 DEF Common
  <1>6. PICK n : n = Common(from, to)
    OBVIOUS
  <1>7. n \in 1..Len(from) /\ n \in 1..Len(to) /\ \A i \in 1..n : from[i].id = to[i].id
    BY <1>2, <1>5, <1>6
  <1>8. ASSUME NEW i \in 1..n PROVE from[i] = to[i]
    <2>1. from[i].id = to[i].id
      BY <1>7
    <2>2. i \in 1..Len(from) /\ i \in 1..Len(to)
      BY <1>2, <1>7
    <2>3. from[i] \in CommitsOf(from) /\ to[i] \in CommitsOf(to)
      BY <2>2 DEF CommitsOf
    <2> QED
      BY <2>1, <2>3, Zenon DEF HeadsInv
  <1> QED
    BY <1>6, <1>7, <1>8

\* A file the comparison does not show was given by a commit that both heads have.
LEMMA GivenBefore ==
  ASSUME ReviewScopeAssumption, HeadsInv, NEW from \in Spoken, NEW to \in Spoken, from # NoHead, to # NoHead, from # to,
         NEW f \in Files, f \notin FetchCompareDiff(from, to), Since(Top(to)[f]) \in Ids(to)
  PROVE  Since(Top(to)[f]) \in Ids(from)
  <1>1. PICK n : n = Common(from, to)
    OBVIOUS
  <1>2. n \in 1..Len(from) /\ n \in 1..Len(to) /\ \A i \in 1..n : from[i] = to[i]
    BY <1>1, CommonIs
  <1>3. Top(to)[f] = from[n].snap[f]
    BY <1>1 DEF FetchCompareDiff
  <1>4. PICK v : v = Top(to)[f]
    OBVIOUS
  <1>5. HeadOK(from, clock) /\ HeadOK(to, clock) /\ Len(from) \in Nat /\ Len(to) \in Nat
    BY DEF HeadsInv, HeadOK
  <1>6. Since(v) <= from[n].id
    BY <1>2, <1>3, <1>4, <1>5, Zenon DEF HeadOK
  <1>7. n \in Nat /\ n >= 1 /\ from[n] = to[n]
    BY <1>2, <1>5
  <1>8. PICK i \in 1..Len(to) : to[i].id = Since(v)
    BY <1>4 DEF Ids
  <1>9. i <= n
    <2>1. to[i].id <= to[n].id
      BY <1>6, <1>7, <1>8
    <2> QED
      BY <1>2, <1>5, <2>1, InOrder
  <1>10. i \in 1..n /\ i \in 1..Len(from)
    BY <1>2, <1>5, <1>7, <1>8, <1>9
  <1>11. from[i].id = Since(v)
    BY <1>2, <1>8, <1>10
  <1> QED
    BY <1>4, <1>10, <1>11 DEF Ids

\* What a review reads, of the files its filters let through.
LEMMA ReadsWhatChanged ==
  ASSUME NEW known, NEW compared \in BOOLEAN, ReadFiles(known, compared)
  PROVE  \E reads :
           /\ read' = [f \in Files |-> IF f \in reads THEN read[f] \cup {Top(chain)[f]} ELSE read[f]]
           /\ widened' = widened \ reads
           /\ \/ reads = VerdictDiff(chain) \ run.exclude
              \/ /\ reads = FetchCompareDiff(recorded.head, run.head)
                 /\ recorded.head # NoHead /\ recorded.head # run.head
           /\ run' = Idle \/ (run'.at = "post" /\ run'.head = run.head)
  <1> DEFINE diff == FilterDiff(VerdictDiff(chain), {}, run.exclude)
             delta == IF compared THEN FetchCompareDiff(recorded.head, run.head) ELSE {}
             scope == IF run.fresh \/ ~known \/ recorded.head = NoHead THEN Full(diff)
                      ELSE ScopeFor(diff, delta, recorded.open, recorded.head, run.head)
             hot == FilterDiff(diff, scope.hot, {})
             reads == IF scope.narrowed /\ hot = scope.hot THEN hot ELSE diff
  <1>1. /\ read' = [f \in Files |-> IF f \in reads THEN read[f] \cup {Top(chain)[f]} ELSE read[f]]
        /\ widened' = widened \ reads
        /\ run' = IF diff = {} THEN Idle
                  ELSE [at |-> "post", head |-> run.head, known |-> known, diff |-> diff, reads |-> reads,
                        skipped |-> OpenInSkippedFiles(recorded.open, scope)]
    BY Zenon DEF ReadFiles
  <1>2. diff = VerdictDiff(chain) \ run.exclude
    BY DEF FilterDiff
  <1>3. \/ ~scope.narrowed
        \/ /\ scope.hot = delta /\ recorded.head # NoHead /\ recorded.head # run.head /\ delta # {}
    BY DEF ScopeFor, Full
  <1>4. \/ reads = VerdictDiff(chain) \ run.exclude
        \/ /\ reads = FetchCompareDiff(recorded.head, run.head)
           /\ recorded.head # NoHead /\ recorded.head # run.head
    <2>1. CASE scope.narrowed /\ hot = scope.hot
      <3>1. reads = delta /\ delta # {} /\ recorded.head # NoHead /\ recorded.head # run.head
        BY <1>3, <2>1
      <3>2. compared
        BY <3>1
      <3> QED
        BY <3>1, <3>2
    <2>2. CASE ~(scope.narrowed /\ hot = scope.hot)
      BY <1>2, <2>2
    <2> QED
      BY <2>1, <2>2
  <1>5. run' = Idle \/ (run'.at = "post" /\ run'.head = run.head)
    <2> HIDE DEF diff, reads, scope
    <2> QED
      BY <1>1
  <1> QED
    BY <1>1, <1>4, <1>5, Zenon

-----------------------------------------------------------------------------
\* At the start nothing is read, and no head is recorded that has it.
LEMMA ScopeFirst == ReviewScopeAssumption /\ Init => ScopeInv
  <1> SUFFICES ASSUME ReviewScopeAssumption, Init PROVE ScopeInv
    OBVIOUS
  <1>1. HeadsInv
    BY HeadsFirst
  <1>2. PICK changed \in SUBSET Files :
          chain = <<[id |-> 0, snap |-> base], [id |-> 1, snap |-> [f \in Files |-> IF f \in changed THEN 1 ELSE 0]]>>
    BY DEF Init
  <1>3. run.at = "idle" /\ recorded.head = NoHead /\ base = [f \in Files |-> 0]
    BY DEF Init, Idle
  <1>4. ASSUME NEW f \in Files, Waits(f) PROVE Since(Top(chain)[f]) \in Ids(chain) \ Ids(recorded.head)
    <2>1. Top(chain)[f] # 0 /\ Top(chain)[f] = IF f \in changed THEN 1 ELSE 0
      BY <1>2, <1>3, <1>4 DEF Waits, VerdictDiff, Top
    <2>2. Top(chain)[f] = 1 /\ Since(1) = 1
      BY <2>1 DEF Since, ReviewScopeAssumption
    <2>3. Len(chain) = 2 /\ chain[2].id = 1
      BY <1>2
    <2>4. 1 \in Ids(chain)
      BY <2>3 DEF Ids
    <2>5. Ids(recorded.head) = {}
      BY <1>3 DEF Ids, NoHead
    <2> QED
      BY <2>2, <2>4, <2>5
  <1>5. WaitsInv
    BY <1>3, <1>4 DEF WaitsInv
  <1> QED
    BY <1>1, <1>5 DEF ScopeInv

\* The head grows: what waits is new, or waited before and is still there.
LEMMA GrowthWaits ==
  ASSUME ReviewScopeAssumption, ScopeInv, UNCHANGED <<recorded, run, excluded, read>>,
         widened \subseteq widened', clock + 1 \in Ids(chain'),
         \A h \in {recorded.head} \cup (IF run.at = "idle" THEN {} ELSE {run.head}) : clock + 1 \notin Ids(h),
         \A f \in Files : Waits(f)' =>
           \/ Since(Top(chain')[f]) = clock + 1
           \/ Waits(f) /\ Top(chain')[f] = Top(chain)[f] /\ Since(Top(chain)[f]) \in Ids(chain')
  PROVE  WaitsInv'
  <1>1. ASSUME NEW f \in Files, Waits(f)'
        PROVE  /\ Since(Top(chain')[f]) \in Ids(chain') \ Ids(recorded.head)
               /\ run.at = "fetch" /\ Since(Top(chain')[f]) \in Ids(run.head) => Top(run.head)[f] = Top(chain')[f]
               /\ run.at = "post" => Since(Top(chain')[f]) \notin Ids(run.head)
    <2>1. CASE Since(Top(chain')[f]) = clock + 1
      <3>1. clock + 1 \notin Ids(recorded.head) /\ (run.at # "idle" => clock + 1 \notin Ids(run.head))
        OBVIOUS
      <3>2. run.at = "fetch" \/ run.at = "post" => run.at # "idle"
        OBVIOUS
      <3> QED
        BY <2>1, <3>1, <3>2
    <2>2. CASE Waits(f) /\ Top(chain')[f] = Top(chain)[f] /\ Since(Top(chain)[f]) \in Ids(chain')
      BY <2>2 DEF ScopeInv, WaitsInv
    <2> QED
      BY <1>1, <2>1, <2>2
  <1>2. run.at = "fetch" => run.exclude \ excluded \subseteq widened'
    BY DEF ScopeInv, WaitsInv
  <1> QED
    BY <1>1, <1>2 DEF WaitsInv

\* A commit: what it touches waits, what it puts back is widened.
LEMMA CommitWaits ==
  ASSUME ReviewScopeAssumption, ScopeInv, NEW keep \in 1..Len(chain), NEW changed \in SUBSET Files,
         NEW reverted \in SUBSET Files, Commit(keep, changed, reverted)
  PROVE  ScopeInv'
  <1>1. PICK c \in Version :
           /\ c.id = clock + 1 /\ \A f \in Files : Since(c.snap[f]) <= c.id
           /\ chain' = Append(SubSeq(chain, 1, keep), c) /\ clock' = clock + 1
           /\ Makes(c.snap, keep, changed, reverted)
    <2>1. HeadsInv
      BY DEF ScopeInv
    <2> QED
      BY <2>1, CommitGrows, Zenon
  <1>2. /\ UNCHANGED <<base, excluded, recorded, run, read>>
        /\ widened' = widened \cup {f \in Files \ (changed \cup reverted) : chain[keep].snap[f] # Top(chain)[f]}
        /\ clock + 1 <= MaxCommits
    BY DEF Commit, ScopeInv, HeadsInv, ReviewScopeAssumption
  <1>3. /\ clock \in Nat /\ base' \in [Files -> Nat] /\ HeadOK(chain, clock)
        /\ \A f \in Files : Since(base'[f]) <= clock'
    <2>1. \A f \in Files : Since(base[f]) \in Nat /\ Since(base[f]) <= clock
      BY SinceWhen DEF ScopeInv, HeadsInv
    <2>2. clock \in Nat /\ base \in [Files -> Nat] /\ HeadOK(chain, clock)
      BY DEF ScopeInv, HeadsInv, Spoken
    <2> QED
      BY <1>1, <1>2, <2>1, <2>2
  <1>4. /\ HeadsInv'
        /\ Top(chain') = c.snap /\ clock + 1 \in Ids(chain')
        /\ \A h \in {recorded.head} \cup (IF run.at = "idle" THEN {} ELSE {run.head}) : clock + 1 \notin Ids(h)
        /\ \A i \in 1..keep : chain[i].id \in Ids(chain')
    BY <1>1, <1>2, <1>3, HeadsGrow DEF ScopeInv
  <1>5. ASSUME NEW f \in Files, Waits(f)'
        PROVE  \/ Since(Top(chain')[f]) = clock + 1
               \/ Waits(f) /\ Top(chain')[f] = Top(chain)[f] /\ Since(Top(chain)[f]) \in Ids(chain')
    <2>1. /\ c.snap[f] # base[f] /\ f \notin excluded /\ f \notin widened'
          /\ c.snap[f] \notin read[f]
      BY <1>2, <1>4, <1>5 DEF Waits, VerdictDiff
    <2>2. CASE c.snap[f] = clock + 1
      <3>1. Since(clock + 1) = clock + 1
        BY <1>2, <1>3, SinceWhen
      <3> QED
        BY <1>4, <2>2, <3>1
    <2>3. CASE f \notin changed \cup reverted /\ c.snap[f] = chain[keep].snap[f]
      <3>1. c.snap[f] = Top(chain)[f] /\ f \notin widened
        BY <1>2, <2>1, <2>3
      <3>2. Waits(f)
        BY <2>1, <3>1 DEF Waits, VerdictDiff
      <3>3. PICK v : v = Top(chain)[f]
        OBVIOUS
      <3>4. PICK i \in 1..Len(chain) : chain[i].id = Since(v)
        BY <3>2, <3>3 DEF ScopeInv, WaitsInv, Ids
      <3>5. Since(v) <= chain[keep].id
        BY <1>3, <2>3, <3>1, <3>3, Zenon DEF HeadOK
      <3>6. i <= keep
        BY <1>3, <3>4, <3>5, InOrder
      <3>7. i \in 1..keep
        BY <3>4, <3>6
      <3>8. Since(v) \in Ids(chain')
        BY <1>4, <3>4, <3>7
      <3> QED
        BY <1>4, <3>1, <3>2, <3>3, <3>8
    <2> QED
      BY <1>1, <2>1, <2>2, <2>3 DEF Makes
  <1>6. WaitsInv'
    <2>1. widened \subseteq widened'
      BY <1>2
    <2> QED
      BY <1>2, <1>4, <1>5, <2>1, GrowthWaits
  <1> QED
    BY <1>4, <1>6 DEF ScopeInv

\* A merge: what it touches waits.
LEMMA MergeWaits ==
  ASSUME ReviewScopeAssumption, ScopeInv, NEW changed \in SUBSET Files, MergeBase(changed)
  PROVE  ScopeInv'
  <1>1. PICK c \in Version :
           /\ c.id = clock + 1 /\ \A f \in Files : Since(c.snap[f]) <= c.id
           /\ chain' = Append(SubSeq(chain, 1, Len(chain)), c) /\ clock' = clock + 1
           /\ base' \in [Files -> Nat] /\ \A f \in Files : Since(base'[f]) <= clock'
           /\ Len(chain) \in 1..Len(chain)
           /\ \A f \in Files :
                \/ c.snap[f] = base'[f]
                \/ Since(c.snap[f]) = clock + 1
                \/ base'[f] = base[f] /\ c.snap[f] = Top(chain)[f]
    BY MergeGrows DEF ScopeInv
  <1>2. UNCHANGED <<excluded, recorded, run, read, widened>>
    BY DEF MergeBase
  <1>3. /\ HeadsInv'
        /\ Top(chain') = c.snap /\ clock + 1 \in Ids(chain')
        /\ \A h \in {recorded.head} \cup (IF run.at = "idle" THEN {} ELSE {run.head}) : clock + 1 \notin Ids(h)
        /\ \A i \in 1..Len(chain) : chain[i].id \in Ids(chain')
    BY <1>1, <1>2, HeadsGrow DEF ScopeInv
  <1>4. ASSUME NEW f \in Files, Waits(f)'
        PROVE  \/ Since(Top(chain')[f]) = clock + 1
               \/ Waits(f) /\ Top(chain')[f] = Top(chain)[f] /\ Since(Top(chain)[f]) \in Ids(chain')
    <2>1. /\ c.snap[f] # base'[f] /\ f \notin excluded /\ f \notin widened
          /\ c.snap[f] \notin read[f]
      BY <1>2, <1>3, <1>4 DEF Waits, VerdictDiff
    <2>2. CASE Since(c.snap[f]) = clock + 1
      BY <1>3, <2>2
    <2>3. CASE base'[f] = base[f] /\ c.snap[f] = Top(chain)[f]
      <3>1. Waits(f)
        BY <2>1, <2>3 DEF Waits, VerdictDiff
      <3>2. Since(Top(chain)[f]) \in Ids(chain)
        BY <3>1 DEF ScopeInv, WaitsInv
      <3>3. Since(Top(chain)[f]) \in Ids(chain')
        BY <1>3, <3>2 DEF Ids
      <3> QED
        BY <1>3, <2>3, <3>1, <3>3
    <2> QED
      BY <1>1, <2>1, <2>2, <2>3
  <1>5. WaitsInv'
    BY <1>2, <1>3, <1>4, GrowthWaits
  <1> QED
    BY <1>3, <1>5 DEF ScopeInv

\* A change of the filters: what they let in is widened.
LEMMA FiltersWait ==
  ASSUME ReviewScopeAssumption, ScopeInv, NEW to, SetFilters(to)
  PROVE  ScopeInv'
  <1>1. /\ clock' = clock + 1 /\ excluded' = to /\ widened' = widened \cup (excluded \ to)
        /\ UNCHANGED <<base, chain, recorded, run, read>>
    BY DEF SetFilters
  <1>2. HeadsInv'
    <2>1. clock \in Nat /\ clock' \in Nat /\ clock <= clock'
      BY <1>1 DEF ScopeInv, HeadsInv
    <2>2. Spoken' = Spoken /\ (run.at # "idle" => run.head \in Spoken \ {NoHead}) /\ run.at \in {"idle", "fetch", "post"}
      BY <1>1 DEF Spoken, ScopeInv, HeadsInv
    <2> QED
      BY <1>1, <2>1, <2>2, HeadsAlone DEF ScopeInv
  <1>3. \A f \in Files : Waits(f)' => Waits(f)
    BY <1>1 DEF Waits, VerdictDiff
  <1>4. run.at = "fetch" => run.exclude \ to \subseteq widened'
    BY <1>1 DEF ScopeInv, WaitsInv
  <1>5. WaitsInv'
    BY <1>1, <1>3, <1>4 DEF ScopeInv, WaitsInv
  <1> QED
    BY <1>2, <1>5 DEF ScopeInv

\* A review begins with the head and the filters of the moment.
LEMMA BeginWaits ==
  ASSUME ReviewScopeAssumption, ScopeInv, NEW fresh, Begin(fresh)
  PROVE  ScopeInv'
  <1>1. /\ run.at = "idle" /\ run'.at = "fetch" /\ run'.head = chain /\ run'.exclude = excluded
        /\ UNCHANGED <<base, chain, clock, excluded, recorded, read, widened>>
    BY DEF Begin, Idle
  <1>2. HeadsInv'
    <2>1. clock' \in Nat /\ clock <= clock' /\ chain # NoHead
      BY <1>1 DEF ScopeInv, HeadsInv
    <2>2. Spoken' \subseteq Spoken /\ chain \in Spoken
      BY <1>1 DEF Spoken
    <2> QED
      BY <1>1, <2>1, <2>2, HeadsAlone DEF ScopeInv
  <1>3. \A f \in Files : Waits(f)' => Waits(f)
    BY <1>1 DEF Waits, VerdictDiff
  <1>4. WaitsInv'
    BY <1>1, <1>3 DEF ScopeInv, WaitsInv
  <1> QED
    BY <1>2, <1>4 DEF ScopeInv

\* A review reads all that waits, or all of it that its head has.
LEMMA ReadWaits ==
  ASSUME ReviewScopeAssumption, ScopeInv, NEW known, NEW compared \in BOOLEAN, ReadFiles(known, compared)
  PROVE  ScopeInv'
  <1>1. PICK reads :
           /\ read' = [f \in Files |-> IF f \in reads THEN read[f] \cup {Top(chain)[f]} ELSE read[f]]
           /\ widened' = widened \ reads
           /\ \/ reads = VerdictDiff(chain) \ run.exclude
              \/ /\ reads = FetchCompareDiff(recorded.head, run.head)
                 /\ recorded.head # NoHead /\ recorded.head # run.head
           /\ run' = Idle \/ (run'.at = "post" /\ run'.head = run.head)
    BY ReadsWhatChanged
  <1>2. run.at = "fetch" /\ UNCHANGED <<base, chain, clock, excluded, recorded>>
    BY DEF ReadFiles
  <1>3. run.head \in Spoken /\ recorded.head \in Spoken /\ run.head # NoHead
    BY <1>2 DEF Spoken, ScopeInv, HeadsInv
  <1>4. HeadsInv'
    <2>1. clock' \in Nat /\ clock <= clock'
      BY <1>2 DEF ScopeInv, HeadsInv
    <2>2. /\ run'.at \in {"idle", "fetch", "post"}
          /\ run'.at # "idle" => run'.head = run.head
      BY <1>1 DEF Idle
    <2>3. Spoken' \subseteq Spoken
      BY <1>2, <1>3, <2>2 DEF Spoken
    <2> QED
      BY <1>2, <1>3, <2>1, <2>2, <2>3, HeadsAlone DEF ScopeInv
  <1>5. ASSUME NEW f \in Files, Waits(f)'
        PROVE  /\ Since(Top(chain)[f]) \in Ids(chain) \ Ids(recorded.head)
               /\ Since(Top(chain)[f]) \notin Ids(run.head)
    <2>1. f \in VerdictDiff(chain) /\ f \notin excluded /\ f \notin widened' /\ Top(chain)[f] \notin read'[f]
      BY <1>2, <1>5 DEF Waits, VerdictDiff
    <2>2. f \notin reads /\ f \notin widened /\ Top(chain)[f] \notin read[f]
      <3>1. f \notin reads
        BY <1>1, <2>1
      <3> QED
        BY <1>1, <2>1, <3>1
    <2>3. Waits(f)
      BY <2>1, <2>2 DEF Waits
    <2>4. /\ Since(Top(chain)[f]) \in Ids(chain) \ Ids(recorded.head)
          /\ Since(Top(chain)[f]) \in Ids(run.head) => Top(run.head)[f] = Top(chain)[f]
      BY <1>2, <2>3 DEF ScopeInv, WaitsInv
    <2>5. f \notin run.exclude
      BY <1>2, <2>1, <2>2 DEF ScopeInv, WaitsInv
    <2>6. /\ f \notin FetchCompareDiff(recorded.head, run.head)
          /\ recorded.head # NoHead /\ recorded.head # run.head
      BY <1>1, <2>1, <2>2, <2>5
    <2>7. ASSUME Since(Top(chain)[f]) \in Ids(run.head) PROVE FALSE
      <3>1. Top(run.head)[f] = Top(chain)[f]
        BY <2>4, <2>7
      <3>2. Since(Top(run.head)[f]) \in Ids(run.head)
        BY <2>7, <3>1
      <3>3. Since(Top(run.head)[f]) \in Ids(recorded.head)
        <4>1. PICK from \in Spoken, to \in Spoken : from = recorded.head /\ to = run.head
          BY <1>3
        <4> QED
          BY <1>3, <2>6, <3>2, <4>1, GivenBefore DEF ScopeInv
      <3> QED
        BY <2>4, <3>1, <3>3
    <2> QED
      BY <2>4, <2>7
  <1>6. WaitsInv'
    <2>1. CASE run' = Idle
      BY <1>2, <1>5, <2>1 DEF WaitsInv, Idle
    <2>2. CASE run'.at = "post" /\ run'.head = run.head
      BY <1>2, <1>5, <2>2 DEF WaitsInv
    <2> QED
      BY <1>1, <2>1, <2>2
  <1> QED
    BY <1>4, <1>6 DEF ScopeInv

\* A review records a head of which nothing waits, or none.
LEMMA PostWaits ==
  ASSUME ReviewScopeAssumption, ScopeInv, NEW found, NEW saved, Post(found, saved)
  PROVE  ScopeInv'
  <1>1. /\ run.at = "post" /\ run' = Idle /\ run'.at = "idle"
        /\ UNCHANGED <<base, chain, clock, excluded, read, widened>>
    BY DEF Post, Idle
  <1>2. recorded'.head = run.head \/ recorded'.head = recorded.head
    BY DEF Post
  <1>3. HeadsInv'
    <2>1. clock' \in Nat /\ clock <= clock'
      BY <1>1 DEF ScopeInv, HeadsInv
    <2>2. Spoken' \subseteq Spoken
      BY <1>1, <1>2 DEF Spoken
    <2> QED
      BY <1>1, <2>1, <2>2, HeadsAlone DEF ScopeInv
  <1>4. \A f \in Files : Waits(f)' => Waits(f)
    BY <1>1 DEF Waits, VerdictDiff
  <1>5. WaitsInv'
    BY <1>1, <1>2, <1>4 DEF ScopeInv, WaitsInv
  <1> QED
    BY <1>3, <1>5 DEF ScopeInv

\* NothingUnread holds for any files, any history of commits, forced pushes,
\* merges and changed filters, and any reviews, comparisons that fail and saves
\* that are lost among them.
THEOREM NothingStaysUnread == ASSUME ReviewScopeAssumption PROVE Spec => []NothingUnread
  <1>1. Init => ScopeInv
    BY ScopeFirst
  <1>2. ScopeInv /\ [Next]_vars => ScopeInv'
    <2> SUFFICES ASSUME ScopeInv, [Next]_vars PROVE ScopeInv'
      OBVIOUS
    <2>1. ASSUME NEW keep \in 1..Len(chain), NEW changed \in SUBSET Files, NEW reverted \in SUBSET Files,
                 Commit(keep, changed, reverted)
          PROVE  ScopeInv'
      BY <2>1, CommitWaits
    <2>2. ASSUME NEW changed \in SUBSET Files, MergeBase(changed) PROVE ScopeInv'
      BY <2>2, MergeWaits
    <2>3. ASSUME NEW to, SetFilters(to) PROVE ScopeInv'
      BY <2>3, FiltersWait
    <2>4. ASSUME NEW fresh, Begin(fresh) PROVE ScopeInv'
      BY <2>4, BeginWaits
    <2>5. ASSUME NEW known, NEW compared \in BOOLEAN, ReadFiles(known, compared) PROVE ScopeInv'
      BY <2>5, ReadWaits
    <2>6. ASSUME NEW found, NEW saved, Post(found, saved) PROVE ScopeInv'
      BY <2>6, PostWaits
    <2>7. CASE UNCHANGED vars
      <3>1. UNCHANGED <<base, chain, clock, excluded, recorded, run, read, widened>>
        BY <2>7 DEF vars
      <3>2. HeadsInv'
        BY <3>1 DEF ScopeInv, HeadsInv, Spoken
      <3>3. \A f \in Files : Waits(f)' <=> Waits(f)
        BY <3>1 DEF Waits, VerdictDiff
      <3>4. WaitsInv'
        BY <3>1, <3>3 DEF ScopeInv, WaitsInv
      <3> QED
        BY <3>2, <3>4 DEF ScopeInv
    <2> QED
      BY <2>1, <2>2, <2>3, <2>4, <2>5, <2>6, <2>7, Zenon DEF Next
  <1>3. ScopeInv => NothingUnread
    <2> SUFFICES ASSUME ScopeInv, recorded.head = chain,
                        NEW f \in VerdictDiff(chain) \ (excluded \cup widened), Top(chain)[f] \notin read[f]
                 PROVE  FALSE
      BY DEF NothingUnread
    <2>1. f \in Files /\ Waits(f)
      BY DEF Waits, VerdictDiff
    <2> QED
      BY <2>1 DEF ScopeInv, WaitsInv
  <1> QED
    BY <1>1, <1>2, <1>3, PTL DEF Spec

-----------------------------------------------------------------------------
(***************************************************************************)
(* What starts a review: the keys of the window are those of the jobs on   *)
(* the queue, one each, and every event the host has sent has its job      *)
(* there if it is to have one.                                             *)
(***************************************************************************)
IsReview(job) == job.trigger = "pull_request" /\ \E a : job.key = <<"review", a, job.head>>
IsCommand(job) == job.trigger = "command" /\ \E c, d : job.key = <<"command", c, d>>

QueueOK(q, keys) ==
  /\ \E S : q \in Seq(S)
  /\ keys = {q[i].key : i \in DOMAIN q}
  /\ \A i, j \in DOMAIN q : q[i].key = q[j].key => i = j
  /\ \A i \in DOMAIN q : IsReview(q[i]) \/ IsCommand(q[i])

Taken(e, keys) == \A i \in DOMAIN Normalize(e) : Normalize(e)[i].key \in keys

SentOK(events, keys) ==
  /\ \E S : events \in Seq(S)
  /\ \A k \in DOMAIN events : events[k].kind \in {"pull", "comment"} /\ Taken(events[k], keys)

HeadHasJob == pull.open => \E i \in DOMAIN queued : queued[i].trigger = "pull_request" /\ queued[i].head = pull.head

TriggersInv ==
  /\ platform \in Hosts /\ DOMAIN pull = {"head", "open"} /\ pull = [pull EXCEPT !.head = pull.head]
  /\ QueueOK(queued, seen) /\ SentOK(sent, seen) /\ HeadHasJob

\* An event becomes one job or none.
LEMMA OneJobOrNone ==
  ASSUME platform \in Hosts, NEW e
  PROVE  \/ Normalize(e) = <<>>
         \/ Normalize(e) = <<Review(e)>>
         \/ Normalize(e) = <<Command(e)>>
  BY DEF Normalize, Hosts, GitHubReview, GitLabReview, BitbucketReview, AzureReview, GitHubCommand, GitLabCommand, One

\* A job is a review of its head or a command.
LEMMA JobIs ==
  ASSUME NEW e
  PROVE  /\ IsReview(Review(e)) /\ Review(e).head = e.head /\ Review(e).key = ReviewKey(e)
         /\ IsCommand(Command(e)) /\ Command(e).key = CommandKey(e)
  BY DEF IsReview, IsCommand, Review, Command, ReviewKey, CommandKey

\* Of an open pull request, what is opened, pushed or opened again triggers.
LEMMA PullTriggers ==
  ASSUME platform \in Hosts, NEW h, NEW what \in {"open", "push", "reopen"},
         what = "reopen" => platform # "bitbucket"
  PROVE  Normalize(PullEvent(what, h, TRUE)) = <<Review(PullEvent(what, h, TRUE))>>
  <1> DEFINE e == PullEvent(what, h, TRUE)
  <1>1. e.kind = "pull" /\ e.open = TRUE /\ e.action = HostAction(what)
    BY DEF PullEvent
  <1>2. CASE platform = "github"
    <2>1. HostAction(what) = [open |-> "opened", push |-> "synchronize", edit |-> "edited",
                              reopen |-> "reopened", close |-> "closed"][what]
      BY <1>2 DEF HostAction
    <2>2. HostAction(what) \in {"opened", "synchronize", "reopened"}
      BY <2>1
    <2> QED
      BY <1>1, <1>2, <2>2 DEF Normalize, GitHubReview, One
  <1>3. CASE platform = "gitlab"
    <2>1. HostAction(what) = [open |-> "open", push |-> "update", edit |-> "update",
                              reopen |-> "reopen", close |-> "close"][what]
      BY <1>3 DEF HostAction
    <2>2. HostAction(what) \in {"open", "update", "reopen"}
      BY <2>1
    <2> QED
      BY <1>1, <1>3, <2>2 DEF Normalize, GitLabReview, One
  <1>4. CASE platform = "bitbucket"
    <2>1. HostAction(what) = [open |-> "pullrequest:created", push |-> "pullrequest:updated",
                              edit |-> "pullrequest:updated", reopen |-> "none", close |-> "pullrequest:rejected"][what]
      BY <1>4 DEF HostAction
    <2>2. HostAction(what) \in {"pullrequest:created", "pullrequest:updated"}
      BY <1>4, <2>1
    <2> QED
      BY <1>1, <1>4, <2>2 DEF Normalize, BitbucketReview, One
  <1>5. CASE platform = "azure"
    <2>1. HostAction(what) \in {"git.pullrequest.created", "git.pullrequest.updated"}
      BY <1>5 DEF HostAction
    <2> QED
      BY <1>1, <1>5, <2>1 DEF Normalize, AzureReview, One
  <1> QED
    BY <1>2, <1>3, <1>4, <1>5 DEF Hosts

\* A job is added under a key the window has not.
LEMMA QueueGrows ==
  ASSUME NEW q, NEW keys, QueueOK(q, keys), NEW job, IsReview(job) \/ IsCommand(job), job.key \notin keys
  PROVE  LET r == q \o <<job>> IN
         QueueOK(r, keys \cup {job.key}) /\ \A i \in DOMAIN q : i \in DOMAIN r /\ r[i] = q[i]
  <1>1. PICK S : q \in Seq(S)
    BY DEF QueueOK
  <1> DEFINE n == Len(q)
             T == S \cup {job}
             r == q \o <<job>>
  <1>2. n \in Nat /\ DOMAIN q = 1..n /\ \A i \in 1..n : q[i] \in S
    BY <1>1
  <1>3. q \in Seq(T) /\ <<job>> \in Seq(T)
    BY <1>1
  <1>4. r \in Seq(T) /\ Len(r) = n + 1 /\ r[n + 1] = job /\ \A i \in 1..n : r[i] = q[i]
    BY <1>3
  <1>5. DOMAIN r = 1..(n + 1)
    BY <1>4
  <1>6. \A i \in 1..(n + 1) : i = n + 1 \/ i \in 1..n
    BY <1>2
  <1>7. \A i \in 1..n : i \in 1..(n + 1)
    BY <1>2
  <1>8. n + 1 \in 1..(n + 1)
    BY <1>2
  <1> HIDE DEF r, n, T
  <1>9. keys \cup {job.key} = {r[i].key : i \in DOMAIN r}
    BY <1>2, <1>4, <1>5, <1>6, <1>7, <1>8 DEF QueueOK
  <1>10. \A i \in 1..n : r[i].key # job.key
    BY <1>2, <1>4 DEF QueueOK
  <1>11. \A i, j \in DOMAIN r : r[i].key = r[j].key => i = j
    BY <1>2, <1>4, <1>5, <1>6, <1>10 DEF QueueOK
  <1>12. \A i \in DOMAIN r : IsReview(r[i]) \/ IsCommand(r[i])
    BY <1>2, <1>4, <1>5, <1>6 DEF QueueOK
  <1>13. QueueOK(r, keys \cup {job.key})
    BY <1>4, <1>9, <1>11, <1>12 DEF QueueOK
  <1> QED
    BY <1>2, <1>4, <1>5, <1>7, <1>13 DEF r

\* A delivery leaves the event with its job, and the others with theirs.
LEMMA Delivered ==
  ASSUME platform \in Hosts, QueueOK(queued, seen), NEW e, Deliver(e)
  PROVE  /\ QueueOK(queued', seen') /\ seen \subseteq seen' /\ Taken(e, seen')
         /\ \A i \in DOMAIN queued : i \in DOMAIN queued' /\ queued'[i] = queued[i]
  <1>1. CASE \E i \in DOMAIN Normalize(e) : Normalize(e)[i].key \in seen
    <2>1. PICK S : queued \in Seq(S)
      BY DEF QueueOK
    <2>2. queued' = queued /\ seen' = seen
      BY <1>1, <2>1 DEF Deliver
    <2>3. Taken(e, seen)
      BY <1>1, OneJobOrNone DEF Taken
    <2> QED
      BY <2>2, <2>3
  <1>2. CASE Normalize(e) = <<>>
    <2>1. PICK S : queued \in Seq(S)
      BY DEF QueueOK
    <2>2. queued' = queued /\ seen' = seen
      BY <1>2, <2>1 DEF Deliver
    <2> QED
      BY <1>2, <2>2 DEF Taken
  <1>3. ASSUME NEW job, Normalize(e) = <<job>>, IsReview(job) \/ IsCommand(job), job.key \notin seen
        PROVE  /\ QueueOK(queued', seen') /\ seen \subseteq seen' /\ Taken(e, seen')
               /\ \A i \in DOMAIN queued : i \in DOMAIN queued' /\ queued'[i] = queued[i]
    <2>1. DOMAIN <<job>> = {1} /\ <<job>>[1] = job
      OBVIOUS
    <2>2. queued' = queued \o <<job>> /\ seen' = seen \cup {<<job>>[i].key : i \in DOMAIN <<job>>}
      BY <1>3, <2>1 DEF Deliver
    <2>3. seen' = seen \cup {job.key}
      BY <2>1, <2>2
    <2>4. Taken(e, seen')
      BY <1>3, <2>1, <2>3 DEF Taken
    <2> QED
      BY <1>3, <2>2, <2>3, <2>4, QueueGrows
  <1>4. Normalize(e) = <<>> \/ \E job : Normalize(e) = <<job>> /\ (IsReview(job) \/ IsCommand(job))
    BY OneJobOrNone, JobIs
  <1>5. \A job : Normalize(e) = <<job>> => job.key \notin seen \/ \E i \in DOMAIN Normalize(e) : Normalize(e)[i].key \in seen
    OBVIOUS
  <1> QED
    BY <1>1, <1>2, <1>3, <1>4, <1>5

\* The host sends an event.
LEMMA Sent ==
  ASSUME TriggersInv, NEW e, e.kind \in {"pull", "comment"}, Send(e), platform' = platform
  PROVE  SentOK(sent', seen')
  <1>1. PICK S : sent \in Seq(S)
    BY DEF TriggersInv, SentOK
  <1>2. sent' = Append(sent, e) /\ Deliver(e)
    BY DEF Send
  <1>3. seen \subseteq seen' /\ Taken(e, seen')
    BY <1>2, Delivered DEF TriggersInv
  <1> DEFINE n == Len(sent)
             T == S \cup {e}
  <1>4. sent \in Seq(T) /\ e \in T
    BY <1>1
  <1>5. sent' \in Seq(T) /\ DOMAIN sent' = 1..(n + 1) /\ n \in Nat /\ sent'[n + 1] = e /\ \A k \in 1..n : sent'[k] = sent[k]
    BY <1>2, <1>4
  <1>6. \A k \in 1..n : k \in DOMAIN sent
    BY <1>1
  <1>7. \A k \in 1..(n + 1) : k = n + 1 \/ k \in 1..n
    BY <1>5
  <1> HIDE DEF n, T
  <1>8. \A k \in DOMAIN sent' : sent'[k].kind \in {"pull", "comment"} /\ Taken(sent'[k], seen')
    BY <1>3, <1>5, <1>6, <1>7 DEF TriggersInv, SentOK, Taken
  <1> QED
    BY <1>5, <1>8 DEF SentOK

\* What the window has stays there, on the same host.
LEMMA SentStays ==
  ASSUME NEW events, NEW keys, NEW more, keys \subseteq more, SentOK(events, keys), platform' = platform
  PROVE  SentOK(events, more)'
  <1>1. \A e : Normalize(e)' = Normalize(e)
    BY DEF Normalize, GitHubReview, GitLabReview, BitbucketReview, AzureReview, GitHubCommand, GitLabCommand
  <1>2. \A e : Taken(e, keys) => Taken(e, more)'
    BY <1>1 DEF Taken
  <1> QED
    BY <1>2 DEF SentOK

\* A review's key is taken by a review of its head.
LEMMA KeyIsOfHead ==
  ASSUME NEW q, NEW keys, QueueOK(q, keys), NEW a, NEW h, <<"review", a, h>> \in keys
  PROVE  \E i \in DOMAIN q : q[i].trigger = "pull_request" /\ q[i].head = h
  <1>1. PICK i \in DOMAIN q : q[i].key = <<"review", a, h>>
    BY DEF QueueOK
  <1>2. IsReview(q[i])
    BY <1>1 DEF QueueOK, IsCommand
  <1> QED
    BY <1>1, <1>2 DEF IsReview

\* A pull request that is open after the event that says so has its job.
LEMMA HeadQueued ==
  ASSUME TriggersInv, NEW h, NEW what \in {"open", "push", "reopen"}, what = "reopen" => platform # "bitbucket",
         Deliver(PullEvent(what, h, TRUE)), pull'.head = h
  PROVE  HeadHasJob'
  <1> DEFINE e == PullEvent(what, h, TRUE)
  <1>1. Normalize(e) = <<Review(e)>> /\ e.head = h
    BY PullTriggers DEF TriggersInv, PullEvent
  <1>2. QueueOK(queued', seen') /\ Taken(e, seen')
    BY Delivered DEF TriggersInv
  <1>3. Review(e).key = <<"review", e.action, h>>
    BY <1>1 DEF Review, ReviewKey
  <1> HIDE DEF e
  <1>4. DOMAIN <<Review(e)>> = {1} /\ <<Review(e)>>[1] = Review(e)
    OBVIOUS
  <1>5. <<"review", e.action, h>> \in seen'
    BY <1>1, <1>2, <1>3, <1>4 DEF Taken
  <1> QED
    BY <1>2, <1>5, KeyIsOfHead DEF HeadHasJob

\* A delivery that leaves the pull request alone, or closes it, takes no job of its head's away.
LEMMA HeadKept ==
  ASSUME TriggersInv, NEW e, Deliver(e), pull'.open => pull.open /\ pull'.head = pull.head
  PROVE  HeadHasJob'
  <1>1. \A i \in DOMAIN queued : i \in DOMAIN queued' /\ queued'[i] = queued[i]
    BY Delivered DEF TriggersInv
  <1> QED
    BY <1>1 DEF TriggersInv, HeadHasJob

\* It holds at the start,
LEMMA TriggersFirst == TriggersInit => TriggersInv
  <1> SUFFICES ASSUME TriggersInit PROVE TriggersInv
    OBVIOUS
  <1>1. PICK h \in Heads : /\ platform \in Hosts /\ pull = [head |-> h, open |-> TRUE]
                           /\ sent = <<PullEvent("open", h, TRUE)>>
                           /\ queued = Normalize(sent[1]) /\ seen = {ReviewKey(sent[1])}
    BY DEF TriggersInit
  <1> DEFINE e == PullEvent("open", h, TRUE)
  <1>2. Normalize(e) = <<Review(e)>> /\ e.kind = "pull" /\ e.head = h
    BY <1>1, PullTriggers DEF PullEvent
  <1>3. sent[1] = e /\ DOMAIN sent = {1} /\ sent \in Seq({e})
    BY <1>1
  <1>4. IsReview(Review(e)) /\ Review(e).head = h /\ Review(e).key = ReviewKey(e) /\ Review(e).trigger = "pull_request"
    BY <1>2, JobIs DEF Review
  <1> HIDE DEF e
  <1>5. queued = <<Review(e)>> /\ seen = {ReviewKey(e)}
    BY <1>1, <1>2, <1>3
  <1>6. DOMAIN queued = {1} /\ queued[1] = Review(e) /\ queued \in Seq({Review(e)})
    BY <1>5
  <1>7. QueueOK(queued, seen)
    BY <1>4, <1>5, <1>6 DEF QueueOK
  <1>8. Taken(e, seen)
    BY <1>2, <1>4, <1>5 DEF Taken
  <1>9. SentOK(sent, seen)
    BY <1>2, <1>3, <1>8 DEF SentOK
  <1>10. HeadHasJob
    BY <1>1, <1>4, <1>6 DEF HeadHasJob
  <1> QED
    BY <1>1, <1>7, <1>9, <1>10 DEF TriggersInv

\* and every step keeps it.
LEMMA TriggersStay == TriggersInv /\ [TriggersNext]_triggerVars => TriggersInv'
  <1> SUFFICES ASSUME TriggersInv, [TriggersNext]_triggerVars PROVE TriggersInv'
    OBVIOUS
  <1>1. ASSUME NEW e, e.kind \in {"pull", "comment"}, Send(e), platform' = platform,
               DOMAIN pull' = {"head", "open"}, pull' = [pull' EXCEPT !.head = pull'.head], HeadHasJob'
        PROVE  TriggersInv'
    <2>1. Deliver(e)
      BY <1>1 DEF Send
    <2>2. QueueOK(queued', seen')
      BY <2>1, Delivered DEF TriggersInv
    <2>3. SentOK(sent', seen')
      BY <1>1, Sent
    <2>4. SentOK(sent, seen)'
      BY <1>1, <2>3, SentStays
    <2> QED
      BY <1>1, <2>2, <2>4 DEF TriggersInv, QueueOK, IsReview, IsCommand
  <1>2. ASSUME NEW e, e.kind \in {"pull", "comment"}, Send(e), UNCHANGED <<platform, pull>>
        PROVE  TriggersInv'
    <2>1. HeadHasJob'
      BY <1>2, HeadKept DEF Send
    <2> QED
      BY <1>1, <1>2, <2>1 DEF TriggersInv
  <1>3. ASSUME NEW h \in Heads, Push(h) PROVE TriggersInv'
    <2>1. /\ platform' = platform /\ pull' = [pull EXCEPT !.head = h]
          /\ IF pull.open THEN Send(PullEvent("push", h, TRUE)) ELSE UNCHANGED <<sent, seen, queued>>
      BY <1>3 DEF Push
    <2>2. /\ DOMAIN pull' = {"head", "open"} /\ pull' = [pull' EXCEPT !.head = pull'.head]
          /\ pull'.head = h /\ pull'.open = pull.open
      BY <2>1 DEF TriggersInv
    <2>3. CASE pull.open
      <3>1. PICK e : e = PullEvent("push", h, TRUE)
        OBVIOUS
      <3>2. Send(e) /\ e.kind \in {"pull", "comment"}
        BY <2>1, <2>3, <3>1 DEF PullEvent
      <3>3. HeadHasJob'
        BY <2>2, <3>1, <3>2, HeadQueued DEF Send
      <3> QED
        BY <1>1, <2>1, <2>2, <3>2, <3>3
    <2>4. CASE ~pull.open
      <3>1. UNCHANGED <<sent, seen, queued>>
        BY <2>1, <2>4
      <3>2. SentOK(sent, seen)'
        BY <2>1, <3>1, SentStays DEF TriggersInv
      <3> QED
        BY <2>1, <2>2, <2>4, <3>1, <3>2 DEF TriggersInv, HeadHasJob, QueueOK, IsReview, IsCommand
    <2> QED
      BY <2>3, <2>4
  <1>4. CASE EditTitle
    BY <1>2, <1>4 DEF EditTitle, PullEvent
  <1>5. CASE Close
    <2>1. /\ platform' = platform /\ pull' = [pull EXCEPT !.open = FALSE] /\ Send(PullEvent("close", pull.head, FALSE))
      BY <1>5 DEF Close
    <2>2. DOMAIN pull' = {"head", "open"} /\ pull' = [pull' EXCEPT !.head = pull'.head] /\ ~pull'.open
      BY <2>1 DEF TriggersInv
    <2>3. PICK e : e = PullEvent("close", pull.head, FALSE)
      OBVIOUS
    <2>4. HeadHasJob' /\ e.kind \in {"pull", "comment"} /\ Send(e)
      BY <2>1, <2>2, <2>3 DEF HeadHasJob, PullEvent
    <2> QED
      BY <1>1, <2>1, <2>2, <2>4
  <1>6. CASE Reopen
    <2>1. /\ platform' = platform /\ platform # "bitbucket"
          /\ pull' = [pull EXCEPT !.open = TRUE] /\ Send(PullEvent("reopen", pull.head, TRUE))
      BY <1>6 DEF Reopen
    <2>2. DOMAIN pull' = {"head", "open"} /\ pull' = [pull' EXCEPT !.head = pull'.head] /\ pull'.head = pull.head
      BY <2>1 DEF TriggersInv
    <2>3. PICK e : e = PullEvent("reopen", pull.head, TRUE)
      OBVIOUS
    <2>4. HeadHasJob' /\ e.kind \in {"pull", "comment"} /\ Send(e)
      BY <2>1, <2>2, <2>3, HeadQueued DEF Send, PullEvent
    <2> QED
      BY <1>1, <2>1, <2>2, <2>4
  <1>7. ASSUME NEW author, NEW text, Write(author, text) PROVE TriggersInv'
    BY <1>2, <1>7 DEF Write, CommentEvent
  <1>8. ASSUME NEW i, NEW text, Rewrite(i, text) PROVE TriggersInv'
    BY <1>2, <1>8 DEF Rewrite, CommentEvent
  <1>9. ASSUME NEW i \in DOMAIN sent, Redeliver(i) PROVE TriggersInv'
    <2>1. Deliver(sent[i]) /\ UNCHANGED <<platform, pull, sent>>
      BY <1>9 DEF Redeliver
    <2>2. QueueOK(queued', seen') /\ seen \subseteq seen'
      BY <2>1, Delivered DEF TriggersInv
    <2>3. HeadHasJob'
      BY <2>1, HeadKept
    <2>4. SentOK(sent, seen)'
      BY <2>1, <2>2, SentStays DEF TriggersInv
    <2> QED
      BY <2>1, <2>2, <2>3, <2>4 DEF TriggersInv, QueueOK, IsReview, IsCommand
  <1>10. CASE UNCHANGED triggerVars
    <2>1. SentOK(sent, seen)'
      BY <1>10, SentStays DEF TriggersInv, triggerVars
    <2> QED
      BY <1>10, <2>1 DEF TriggersInv, triggerVars, HeadHasJob, QueueOK, IsReview, IsCommand
  <1> QED
    BY <1>3, <1>4, <1>5, <1>6, <1>7, <1>8, <1>9, <1>10 DEF TriggersNext

(* NothingIsMissed: on every host, the head of an open pull request has     *)
(* its job, and a member's order exactly one, over any pushes, edits,       *)
(* closings and deliveries of any event again, in any order.                *)
THEOREM NothingStaysMissed == TriggersSpec => []NothingIsMissed
  <1>1. TriggersInv => NothingIsMissed
    <2> SUFFICES ASSUME TriggersInv PROVE NothingIsMissed
      OBVIOUS
    <2>1. pull.open => \E i \in Reviews : queued[i].head = pull.head
      BY DEF TriggersInv, HeadHasJob, Reviews
    <2>2. ASSUME platform \in {"github", "gitlab"}, NEW k \in DOMAIN sent,
                 sent[k].kind = "comment", sent[k].action = "created", sent[k].author = "member", IsMentioned(sent[k].text)
          PROVE  Cardinality({i \in DOMAIN queued : queued[i].key = CommandKey(sent[k])}) = 1
      <3>1. Normalize(sent[k]) = <<Command(sent[k])>>
        BY <2>2 DEF Normalize, GitHubCommand, GitLabCommand, One
      <3>2. CommandKey(sent[k]) \in seen
        <4>1. Taken(sent[k], seen)
          BY DEF TriggersInv, SentOK
        <4>2. Command(sent[k]).key = CommandKey(sent[k])
          BY JobIs
        <4> QED
          BY <3>1, <4>1, <4>2 DEF Taken
      <3>3. PICK i \in DOMAIN queued : queued[i].key = CommandKey(sent[k])
        BY <3>2 DEF TriggersInv, QueueOK
      <3>4. {j \in DOMAIN queued : queued[j].key = CommandKey(sent[k])} = {i}
        BY <3>3 DEF TriggersInv, QueueOK
      <3> QED
        BY <3>4, FS_Singleton
    <2> QED
      BY <2>1, <2>2 DEF NothingIsMissed
  <1> QED
    BY <1>1, TriggersFirst, TriggersStay, PTL DEF TriggersSpec

-----------------------------------------------------------------------------
(***************************************************************************)
(* What the sandbox leaves behind.  A sandbox that is still there has left *)
(* a check that does not say "purged", unless the stage was broken off.    *)
(***************************************************************************)
Known == alive = 0 \/ \E i \in DOMAIN checks : checks[i] # "purged"

ProofInv ==
  /\ alive \in Nat /\ (\E S : checks \in Seq(S))
  /\ stage \in {"review", "impact", "ci", "rules", "verify"} => alive = 0 /\ queue = <<>>
  /\ stage = "proving" \/ queue = <<>> => Known

\* A removal that failed is never taken for a purge.
LEMMA FailureIsSeen ==
  ASSUME NEW removal \in N!Destroy \ {"throws"}, removal # "removed", NEW status \in N!CheckPurged(removal)
  PROVE  status # "purged"
  <1>1. CASE backend = "local"
    BY <1>1 DEF N!Destroy, N!CheckPurged
  <1>2. CASE backend = "docker"
    <2>1. removal = "fails"
      BY <1>2 DEF N!Destroy
    <2> QED
      BY <1>2, <2>1 DEF N!CheckPurged
  <1>3. CASE backend # "local" /\ backend # "docker"
    BY <1>3 DEF N!CheckPurged
  <1> QED
    BY <1>1, <1>2, <1>3

(* A retention proof that says "proven" covers every sandbox of a stage that *)
(* came to its end, whatever the backend, the tests and the failures.        *)
THEOREM ProvenIsGone == N!Spec => []N!ProvenMeansGone
  <1>1. N!Init => ProofInv
    <2> SUFFICES ASSUME N!Init PROVE ProofInv
      OBVIOUS
    <2>1. alive = 0 /\ checks = <<>> /\ queue = <<>>
      BY DEF N!Init
    <2>2. checks \in Seq({})
      BY <2>1
    <2> QED
      BY <2>1, <2>2 DEF ProofInv, Known
  <1>2. ProofInv /\ [N!Next]_(N!vars) => ProofInv'
    <2> SUFFICES ASSUME ProofInv, [N!Next]_(N!vars) PROVE ProofInv'
      OBVIOUS
    <2>1. ASSUME UNCHANGED <<queue, alive, checks>>, stage # "proving",
                 stage' \in {"review", "impact", "ci", "rules", "verify"} =>
                   stage \in {"review", "impact", "ci", "rules", "verify"},
                 stage' = "proving" => queue = <<>>
          PROVE  ProofInv'
      BY <2>1 DEF ProofInv, Known
    <2>2. ASSUME NEW scanned, NEW answers, N!DeepReview(scanned, answers) PROVE ProofInv'
      BY <2>1, <2>2 DEF N!DeepReview, N!Idle
    <2>3. ASSUME NEW reply, N!SinglePass(reply) PROVE ProofInv'
      BY <2>1, <2>3 DEF N!SinglePass, N!Idle
    <2>4. ASSUME N!ReviewThrows PROVE ProofInv'
      BY <2>1, <2>4 DEF N!ReviewThrows, N!Idle
    <2>5. ASSUME NEW found, N!BlastRadius(found) \/ N!Regression(found) PROVE ProofInv'
      BY <2>1, <2>5 DEF N!BlastRadius, N!Regression, N!Idle
    <2>6. ASSUME NEW on, NEW breaks, N!PreMerge(on, breaks) PROVE ProofInv'
      BY <2>1, <2>6 DEF N!PreMerge
    <2>7. ASSUME NEW wanted, N!StartVerify(wanted) PROVE ProofInv'
      <3>1. alive = 0 /\ UNCHANGED <<alive, checks>> /\ stage' \in {"proving", "done"}
        BY <2>7 DEF N!StartVerify, ProofInv
      <3> QED
        BY <3>1 DEF ProofInv, Known
    <2>8. ASSUME N!Settle PROVE ProofInv'
      <3>1. stage = "proving" /\ UNCHANGED <<stage, alive, checks>>
        BY <2>8 DEF N!Settle
      <3> QED
        BY <3>1 DEF ProofInv, Known
    <2>9. ASSUME NEW exit, NEW removal, N!Verify(exit, removal) PROVE ProofInv'
      <3>1. PICK status \in N!CheckPurged(removal) : checks' = Append(checks, status)
        BY <2>9 DEF N!Verify
      <3>2. stage = "proving" /\ stage' = "proving" /\ removal \in N!Destroy \ {"throws"}
            /\ alive' = IF removal = "removed" THEN alive ELSE alive + 1
        BY <2>9 DEF N!Verify
      <3>3. PICK S : checks \in Seq(S)
        BY DEF ProofInv
      <3>4. checks' \in Seq(S \cup {status}) /\ DOMAIN checks = 1..Len(checks) /\ DOMAIN checks' = 1..(Len(checks) + 1)
            /\ checks'[Len(checks) + 1] = status /\ \A i \in 1..Len(checks) : checks'[i] = checks[i]
        BY <3>1, <3>3
      <3>5. Len(checks) \in Nat
        BY <3>3
      <3>6. \A i \in DOMAIN checks : i \in DOMAIN checks' /\ checks'[i] = checks[i]
        BY <3>4, <3>5
      <3>7. Len(checks) + 1 \in DOMAIN checks'
        BY <3>4, <3>5
      <3>8. CASE removal = "removed"
        <4>1. alive' = alive
          BY <3>2, <3>8
        <4>2. Known'
          BY <3>2, <3>6, <4>1 DEF ProofInv, Known
        <4>3. alive' \in Nat
          BY <4>1 DEF ProofInv
        <4> QED
          BY <3>2, <3>4, <4>2, <4>3 DEF ProofInv
      <3>9. CASE removal # "removed"
        <4>1. status # "purged"
          BY <3>1, <3>2, <3>9, FailureIsSeen
        <4>2. Known'
          BY <3>4, <3>7, <4>1 DEF Known
        <4>3. alive' \in Nat
          BY <3>2, <3>9 DEF ProofInv
        <4> QED
          BY <3>2, <3>4, <4>2, <4>3 DEF ProofInv
      <3> QED
        BY <3>8, <3>9
    <2>10. ASSUME NEW started, N!VerifyThrows(started) PROVE ProofInv'
      <3>1. queue # <<>> /\ UNCHANGED <<queue, checks>> /\ stage' = "done" /\ (alive' = alive \/ alive' = alive + 1)
        BY <2>10 DEF N!VerifyThrows
      <3>2. alive' \in Nat
        BY <3>1 DEF ProofInv
      <3> QED
        BY <3>1, <3>2 DEF ProofInv
    <2>11. ASSUME N!EndVerify PROVE ProofInv'
      <3>1. stage = "proving" /\ UNCHANGED <<queue, alive, checks>> /\ stage' = "done"
        BY <2>11 DEF N!EndVerify
      <3> QED
        BY <3>1 DEF ProofInv, Known
    <2>12. CASE UNCHANGED N!vars
      BY <2>12 DEF N!vars, ProofInv, Known
    <2> QED
      BY <2>2, <2>3, <2>4, <2>5, <2>6, <2>7, <2>8, <2>9, <2>10, <2>11, <2>12 DEF N!Next
  <1>3. ProofInv => N!ProvenMeansGone
    <2> SUFFICES ASSUME ProofInv, stage = "done", queue = <<>>, N!VerdictOf(checks) = "proven" PROVE alive = 0
      BY DEF N!ProvenMeansGone
    <2>1. Known
      BY DEF ProofInv
    <2>2. N!Elements(checks) = {"purged"}
      BY DEF N!VerdictOf
    <2>3. \A i \in DOMAIN checks : checks[i] \in N!Elements(checks)
      BY DEF N!Elements
    <2> QED
      BY <2>1, <2>2, <2>3 DEF Known
  <1> QED
    BY <1>1, <1>2, <1>3, PTL DEF N!Spec
=============================================================================
