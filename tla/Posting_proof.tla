--------------------------- MODULE Posting_proof ----------------------------
(***************************************************************************)
(* Proofs about Posting: what the hosts' calls do to a pull request's page *)
(* of reviews, and from it that a finding has one comment, that a review   *)
(* of a push deletes no thread that is still needed, and that a row is     *)
(* green only if it was asked to be.                                       *)
(***************************************************************************)
EXTENDS MCPosting, Sequences, FiniteSetTheorems, SequenceTheorems, WellFoundedInduction, TLAPS

-----------------------------------------------------------------------------
(***************************************************************************)
(* The hosts' clients are modules of their own, with copies of their own   *)
(* of what they share; here they are made the same.                        *)
(***************************************************************************)
SeqOf(set) == CHOOSE f \in [1..Cardinality(set) -> set] : \A a, b \in DOMAIN f : f[a] = f[b] => a = b

Whole(p, review, refused, comments) ==
  LET state == IF review.event = "REQUEST_CHANGES" THEN "CHANGES_REQUESTED" ELSE "COMMENTED"
  IN IF refused \cap ({"review"} \cup review.comments) # {} THEN [ok |-> FALSE, page |-> p, value |-> 0]
     ELSE [ok |-> TRUE, page |-> [p EXCEPT
            !.notes = @ \cup {[id |-> p.next, kind |-> "review", state |-> state]},
            !.inline = @ \cup {[id |-> p.next + i, note |-> p.next, fp |-> comments[i]] : i \in DOMAIN comments},
            !.next = @ + 1 + Len(comments)], value |-> p.next]

\* The five clients post a whole review in the same way.
LEMMA HostsPostAlike ==
  ASSUME NEW p, NEW review, NEW refused
  PROVE  /\ GitHub!PostWhole(p, review, refused) = Whole(p, review, refused, SeqOf(review.comments))
         /\ GitLab!PostWhole(p, review, refused) = Whole(p, review, refused, SeqOf(review.comments))
         /\ Bitbucket!PostWhole(p, review, refused) = Whole(p, review, refused, SeqOf(review.comments))
         /\ Server!PostWhole(p, review, refused) = Whole(p, review, refused, SeqOf(review.comments))
         /\ Azure!PostWhole(p, review, refused) = Whole(p, review, refused, SeqOf(review.comments))
  <1> DEFINE set == review.comments
  <1>1. GitHub!SetToSeq(set) = SeqOf(set)
    <2>1. GitHub!Cardinality(set) = Cardinality(set)
      BY DEF GitHub!Cardinality, Cardinality
    <2> QED
      BY <2>1, Zenon DEF GitHub!SetToSeq, SeqOf, GitHub!IsInjective
  <1>2. GitLab!SetToSeq(set) = SeqOf(set)
    <2>1. GitLab!Cardinality(set) = Cardinality(set)
      BY DEF GitLab!Cardinality, Cardinality
    <2> QED
      BY <2>1, Zenon DEF GitLab!SetToSeq, SeqOf, GitLab!IsInjective
  <1>3. Bitbucket!SetToSeq(set) = SeqOf(set)
    <2>1. Bitbucket!Cardinality(set) = Cardinality(set)
      BY DEF Bitbucket!Cardinality, Cardinality
    <2> QED
      BY <2>1, Zenon DEF Bitbucket!SetToSeq, SeqOf, Bitbucket!IsInjective
  <1>4. Server!SetToSeq(set) = SeqOf(set)
    <2>1. Server!Cardinality(set) = Cardinality(set)
      BY DEF Server!Cardinality, Cardinality
    <2> QED
      BY <2>1, Zenon DEF Server!SetToSeq, SeqOf, Server!IsInjective
  <1>5. Azure!SetToSeq(set) = SeqOf(set)
    <2>1. Azure!Cardinality(set) = Cardinality(set)
      BY DEF Azure!Cardinality, Cardinality
    <2> QED
      BY <2>1, Zenon DEF Azure!SetToSeq, SeqOf, Azure!IsInjective
  <1>6. GitHub!PostWhole(p, review, refused) = Whole(p, review, refused, GitHub!SetToSeq(set))
    BY Zenon DEF GitHub!PostWhole, Whole, GitHub!Done, GitHub!Thrown
  <1>7. GitLab!PostWhole(p, review, refused) = Whole(p, review, refused, GitLab!SetToSeq(set))
    BY Zenon DEF GitLab!PostWhole, Whole, GitLab!Done, GitLab!Thrown
  <1>8. Bitbucket!PostWhole(p, review, refused) = Whole(p, review, refused, Bitbucket!SetToSeq(set))
    BY Zenon DEF Bitbucket!PostWhole, Whole, Bitbucket!Done, Bitbucket!Thrown
  <1>9. Server!PostWhole(p, review, refused) = Whole(p, review, refused, Server!SetToSeq(set))
    BY Zenon DEF Server!PostWhole, Whole, Server!Done, Server!Thrown
  <1>10. Azure!PostWhole(p, review, refused) = Whole(p, review, refused, Azure!SetToSeq(set))
    BY Zenon DEF Azure!PostWhole, Whole, Azure!Done, Azure!Thrown
  <1> QED
    BY <1>1, <1>2, <1>3, <1>4, <1>5, <1>6, <1>7, <1>8, <1>9, <1>10, Zenon

(* What a host's list of a finite set puts in order, has each of it once.   *)
LEMMA SeqOfAll ==
  ASSUME NEW set, IsFiniteSet(set)
  PROVE  /\ SeqOf(set) \in [1..Cardinality(set) -> set]
         /\ \A a, b \in 1..Cardinality(set) : SeqOf(set)[a] = SeqOf(set)[b] => a = b
         /\ \A c \in set : \E i \in 1..Cardinality(set) : SeqOf(set)[i] = c
         /\ Cardinality(set) \in Nat /\ Len(SeqOf(set)) = Cardinality(set)
  <1> DEFINE n == Cardinality(set)
  <1>1. n \in Nat /\ ExistsBijection(1..n, set)
    BY FS_CardinalityType, FS_NatBijection, FS_CountingElements
  <1>2. \E f \in [1..n -> set] : \A a, b \in DOMAIN f : f[a] = f[b] => a = b
    BY <1>1 DEF ExistsBijection, Bijection, Injection, IsInjective
  <1>3. SeqOf(set) \in [1..n -> set] /\ \A a, b \in 1..n : SeqOf(set)[a] = SeqOf(set)[b] => a = b
    BY <1>2 DEF SeqOf
  <1>4. \A c \in set : \E i \in 1..n : SeqOf(set)[i] = c
    <2>1. SeqOf(set) \in Injection(1..n, set)
      BY <1>3 DEF Injection, IsInjective
    <2>2. Cardinality(1..n) = n
      BY <1>1, FS_Interval
    <2>3. SeqOf(set) \in Surjection(1..n, set)
      BY <2>1, <2>2, FS_Injection, FS_Interval
    <2> QED
      BY <2>3 DEF Surjection
  <1> QED
    BY <1>1, <1>3, <1>4

-----------------------------------------------------------------------------
(***************************************************************************)
(* The page, and what each call does to it.                                *)
(***************************************************************************)
PageFields == {"notes", "inline", "flag", "rows", "next"}

PageOK(p) ==
  /\ DOMAIN p = PageFields
  /\ p.rows \in [Heads -> GitHub!RowStates]
  /\ p.next \in Nat \ {0}
  /\ IsFiniteSet(p.notes) /\ IsFiniteSet(p.inline)
  /\ \A c \in p.inline : c.id \in Nat /\ c.id < p.next /\ c.fp \in Findings
  /\ \A c, d \in p.inline : c.id = d.id => c = d

\* A review with these comments was put on page p, which gives page q.
Added(p, q, set) ==
  \E n, new :
    /\ q.notes = p.notes \cup {n} /\ n.id = p.next /\ n.kind = "review"
    /\ q.inline = p.inline \cup new /\ {c.fp : c \in new} = set
    /\ \A c \in new : c.id \in Nat /\ c.id >= p.next /\ c.note = p.next
    /\ \A c, d \in new : c.fp = d.fp => c = d

\* The host's answer a to a review whose comments are these, refused as a whole or taken.
Answered(a, p, set, refused) ==
  \/ ~a.ok /\ a.page = p /\ refused \cap ({"review"} \cup set) # {}
  \/ /\ a.ok /\ PageOK(a.page) /\ a.page.rows = p.rows /\ a.page.next > p.next
     /\ DOMAIN a = {"ok", "page", "value"}
     /\ refused \cap ({"review"} \cup set) = {}
     /\ Added(p, a.page, set)

\* A posted review and its comments are on the page, or the host refused.
LEMMA WholeAdds ==
  ASSUME IsFiniteSet(Findings), NEW p, NEW set, NEW review, NEW refused, NEW a,
         PageOK(p), set \in SUBSET Findings, review.comments = set,
         a = Whole(p, review, refused, SeqOf(set))
  PROVE  Answered(a, p, set, refused)
  <1>1. CASE refused \cap ({"review"} \cup set) # {}
    BY <1>1 DEF Whole, Answered
  <1>2. CASE refused \cap ({"review"} \cup set) = {}
    <2> DEFINE s == SeqOf(set)
    <2> DEFINE k == Cardinality(set)
    <2> DEFINE n == [id |-> p.next, kind |-> "review",
                     state |-> IF review.event = "REQUEST_CHANGES" THEN "CHANGES_REQUESTED" ELSE "COMMENTED"]
    <2> DEFINE Comment(i) == [id |-> p.next + i, note |-> p.next, fp |-> s[i]]
    <2> DEFINE new == {Comment(i) : i \in DOMAIN s}
    <2> DEFINE q == [p EXCEPT !.notes = @ \cup {n}, !.inline = @ \cup new, !.next = @ + 1 + Len(s)]
    <2>1. a = [ok |-> TRUE, page |-> q, value |-> p.next]
      BY <1>2 DEF Whole
    <2>2. IsFiniteSet(set)
      BY FS_Subset
    <2>3. /\ s \in [1..k -> set] /\ \A b, c \in 1..k : s[b] = s[c] => b = c
          /\ \A c \in set : \E i \in 1..k : s[i] = c
          /\ k \in Nat /\ Len(s) = k /\ DOMAIN s = 1..k
      BY <2>2, SeqOfAll
    <2>4. p.next \in Nat \ {0} /\ DOMAIN p = PageFields
      BY DEF PageOK
    <2>5. /\ \A c \in new : c.id \in Nat /\ c.id >= p.next /\ c.id < p.next + 1 + k /\ c.note = p.next /\ c.fp \in set
          /\ \A c, d \in new : c.fp = d.fp \/ c.id = d.id => c = d
      <3>1. ASSUME NEW c \in new
            PROVE  \E i \in 1..k : c = Comment(i) /\ c.id = p.next + i /\ c.note = p.next /\ c.fp = s[i] /\ s[i] \in set
        BY <2>3, <3>1
      <3> HIDE DEF new, s, k
      <3>2. ASSUME NEW c \in new
            PROVE  c.id \in Nat /\ c.id >= p.next /\ c.id < p.next + 1 + k /\ c.note = p.next /\ c.fp \in set
        BY <2>3, <2>4, <3>1, <3>2
      <3>3. ASSUME NEW c \in new, NEW d \in new, c.fp = d.fp \/ c.id = d.id PROVE c = d
        <4>1. PICK i \in 1..k : c = Comment(i) /\ c.id = p.next + i /\ c.fp = s[i]
          BY <3>1
        <4>2. PICK j \in 1..k : d = Comment(j) /\ d.id = p.next + j /\ d.fp = s[j]
          BY <3>1
        <4> HIDE DEF Comment
        <4>3. i = j
          BY <2>3, <2>4, <3>3, <4>1, <4>2
        <4> QED
          BY <4>1, <4>2, <4>3
      <3> QED
        BY <3>2, <3>3
    <2>6. {c.fp : c \in new} = set
      <3>1. \A i \in 1..k : Comment(i) \in new /\ Comment(i).fp = s[i]
        BY <2>3
      <3> HIDE DEF new, s, k, Comment
      <3> QED
        BY <2>3, <2>5, <3>1
    <2>7. IsFiniteSet(new)
      <3> DEFINE f == [i \in 1..k |-> Comment(i)]
      <3>1. f \in Surjection(1..k, new)
        BY <2>3 DEF Surjection
      <3> HIDE DEF f
      <3> QED
        BY <2>3, <3>1, FS_Surjection, FS_Interval
    <2> HIDE DEF new, n
    <2>8. /\ DOMAIN q = PageFields /\ q.notes = p.notes \cup {n} /\ q.inline = p.inline \cup new
          /\ q.next = p.next + 1 + k /\ q.rows = p.rows
      BY <2>3, <2>4 DEF PageFields
    <2>9. n.id = p.next /\ n.kind = "review"
      BY DEF n
    <2> HIDE DEF q, s, k
    <2>10. IsFiniteSet(q.notes) /\ IsFiniteSet(q.inline)
      <3>1. IsFiniteSet(p.notes) /\ IsFiniteSet(p.inline)
        BY DEF PageOK
      <3>2. IsFiniteSet(p.notes \cup {n})
        BY <3>1, FS_AddElement
      <3>3. IsFiniteSet(p.inline \cup new)
        BY <2>7, <3>1, FS_Union
      <3> QED
        BY <2>8, <3>2, <3>3
    <2>11. q.next \in Nat \ {0} /\ q.next > p.next /\ \A c \in p.inline : c.id \in Nat /\ c.id < p.next /\ c.id < q.next
      BY <2>3, <2>4, <2>8 DEF PageOK
    <2>12. \A c \in q.inline : c.id \in Nat /\ c.id < q.next /\ c.fp \in Findings
      BY <2>5, <2>8, <2>11 DEF PageOK
    <2>13. ASSUME NEW c \in q.inline, NEW d \in q.inline, c.id = d.id PROVE c = d
      <3>1. CASE c \in p.inline /\ d \in p.inline
        BY <2>13, <3>1 DEF PageOK
      <3>2. CASE c \in new /\ d \in new
        BY <2>5, <2>13, <3>2
      <3>3. CASE (c \in p.inline /\ d \in new) \/ (c \in new /\ d \in p.inline)
        BY <2>4, <2>5, <2>11, <2>13, <3>3
      <3> QED
        BY <2>8, <3>1, <3>2, <3>3
    <2>14. PageOK(q)
      BY <2>8, <2>10, <2>11, <2>12, <2>13 DEF PageOK
    <2>15. Added(p, q, set)
      BY <2>5, <2>6, <2>8, <2>9 DEF Added
    <2> QED
      BY <1>2, <2>1, <2>8, <2>11, <2>14, <2>15 DEF Answered
  <1> QED
    BY <1>1, <1>2

(* A review is put on the page whole or not at all; where a host takes its  *)
(* comments one by one, some of them may be left out.                       *)
LEMMA PostAdds ==
  ASSUME PostingAssumption, host \in Hosts, PageOK(page),
         NEW event, NEW set \in SUBSET Findings, NEW refused,
         NEW a, a = PostReview([event |-> event, comments |-> set], refused)
  PROVE  \/ ~a.ok /\ a.page = page /\ (host = "github" \/ "review" \in refused)
         \/ /\ a.ok /\ PageOK(a.page) /\ a.page.rows = page.rows /\ a.page.next > page.next
            /\ \E taken \in SUBSET set : /\ Added(page, a.page, taken)
                                         /\ host = "github" => taken = set
                                         /\ "refs" \notin refused => set \subseteq taken \cup refused
  <1> DEFINE review == [event |-> event, comments |-> set]
  <1>1. IsFiniteSet(Findings) /\ host \in {"github", "gitlab", "bitbucket", "bitbucket-server", "azure-devops"}
    BY DEF PostingAssumption, GitHub!Platforms
  <1>2. CASE host = "github"
    <2>1. a = Whole(page, review, refused, SeqOf(review.comments))
      BY <1>2, HostsPostAlike, Zenon DEF PostReview, GitHub!PostReview
    <2>2. review.comments = set
      OBVIOUS
    <2> HIDE DEF review
    <2>0. a = Whole(page, review, refused, SeqOf(set))
      BY <2>1, <2>2
    <2>3. Answered(a, page, set, refused)
      BY <1>1, <2>0, <2>2, WholeAdds
    <2> QED
      BY <1>2, <2>3 DEF Answered
  \* The comments refused are left out, and only "review" refuses the rest.
  <1>3. ASSUME NEW given, NEW left \in SUBSET set, given.comments = left,
               NEW b, b = Whole(page, given, refused \cap {"review"}, SeqOf(given.comments))
        PROVE  \/ ~b.ok /\ b.page = page /\ "review" \in refused
               \/ /\ b.ok /\ PageOK(b.page) /\ b.page.rows = page.rows /\ b.page.next > page.next
                  /\ DOMAIN b = {"ok", "page", "value"}
                  /\ Added(page, b.page, left)
    <2> DEFINE ways == refused \cap {"review"}
    <2>1. left \in SUBSET Findings /\ "review" \notin Findings
      BY DEF PostingAssumption, CallNames
    <2>2. ways \cap ({"review"} \cup left) # {} => "review" \in refused
      BY <2>1
    <2>3. given.comments = left /\ b = Whole(page, given, ways, SeqOf(left))
      BY <1>3
    <2> HIDE DEF ways
    <2>4. Answered(b, page, left, ways)
      BY <1>1, <2>1, <2>3, WholeAdds
    <2> QED
      BY <2>2, <2>4 DEF Answered
  <1>4. CASE host = "azure-devops"
    <2> DEFINE given == [review EXCEPT !.comments = @ \ refused, !.event = "COMMENT"]
    <2>1. a = Whole(page, given, refused \cap {"review"}, SeqOf(given.comments))
      <3>1. a = Azure!PostReview(page, review, refused)
        BY <1>4 DEF PostReview
      <3>2. Azure!PostReview(page, review, refused) = Azure!PostWhole(page, given, refused \cap {"review"})
        BY Zenon DEF Azure!PostReview, Azure!PostInPieces
      <3> HIDE DEF given, review
      <3> QED
        BY <3>1, <3>2, HostsPostAlike
    <2>2. given.comments = set \ refused
      OBVIOUS
    <2> HIDE DEF given
    <2> QED
      BY <1>3, <1>4, <2>1, <2>2
  <1>5. CASE host = "gitlab"
    <2> DEFINE put == IF "refs" \in refused THEN [review EXCEPT !.comments = {}] ELSE review
    <2> DEFINE given == [put EXCEPT !.comments = @ \ refused, !.event = "COMMENT"]
    <2>1. a = Whole(page, given, refused \cap {"review"}, SeqOf(given.comments))
      <3>1. a = GitLab!PostReview(page, review, refused)
        BY <1>5 DEF PostReview
      <3>2. GitLab!PostReview(page, review, refused) = GitLab!PostWhole(page, given, refused \cap {"review"})
        BY Zenon DEF GitLab!PostReview, GitLab!PostInPieces
      <3> HIDE DEF given, review
      <3> QED
        BY <3>1, <3>2, HostsPostAlike
    <2>2. given.comments = IF "refs" \in refused THEN {} ELSE set \ refused
      <3>1. CASE "refs" \in refused
        BY <3>1
      <3>2. CASE "refs" \notin refused
        BY <3>2
      <3> QED
        BY <3>1, <3>2
    <2> HIDE DEF given
    <2>3. given.comments \in SUBSET set /\ ("refs" \notin refused => set \subseteq given.comments \cup refused)
      BY <2>2
    <2> QED
      BY <1>3, <1>5, <2>1, <2>3
  <1>6. ASSUME host \in {"bitbucket", "bitbucket-server"}
        PROVE  \E b, given : /\ b = Whole(page, given, refused \cap {"review"}, SeqOf(given.comments))
                             /\ given.comments = set \ refused
                             /\ a = b \/ \E p : b.ok /\ a = [b EXCEPT !.page = p] /\ p \in {b.page, [b.page EXCEPT !.flag = TRUE]}
    <2> DEFINE given == [review EXCEPT !.comments = @ \ refused, !.event = "COMMENT"]
    <2> DEFINE b == Whole(page, given, refused \cap {"review"}, SeqOf(given.comments))
    <2>1. given.comments = set \ refused
      OBVIOUS
    <2>2. CASE host = "bitbucket"
      <3>1. Bitbucket!PostInPieces(page, review, refused) = b
        <4>1. Bitbucket!PostInPieces(page, review, refused) = Bitbucket!PostWhole(page, given, refused \cap {"review"})
          BY Zenon DEF Bitbucket!PostInPieces
        <4> HIDE DEF given, review
        <4> QED
          BY <4>1, HostsPostAlike DEF b
      <3>2. a = Bitbucket!PostReview(page, review, refused)
        BY <2>2 DEF PostReview
      <3> HIDE DEF b, given, review
      <3>3. a = b \/ (b.ok /\ a = [b EXCEPT !.page.flag = TRUE])
        BY <3>1, <3>2 DEF Bitbucket!PostReview
      <3> QED
        BY <2>1, <3>3 DEF b
    <2>3. CASE host = "bitbucket-server"
      <3>1. Server!PostInPieces(page, review, refused) = b
        <4>1. Server!PostInPieces(page, review, refused) = Server!PostWhole(page, given, refused \cap {"review"})
          BY Zenon DEF Server!PostInPieces
        <4> HIDE DEF given, review
        <4> QED
          BY <4>1, HostsPostAlike DEF b
      <3>2. a = Server!PostReview(page, review, refused)
        BY <2>3 DEF PostReview
      <3> HIDE DEF b, given, review
      <3>3. a = b \/ (b.ok /\ a = [b EXCEPT !.page = Server!SetParticipantStatus(b.page, TRUE, refused)])
        BY <3>1, <3>2 DEF Server!PostReview
      <3>4. Server!SetParticipantStatus(b.page, TRUE, refused) \in {b.page, [b.page EXCEPT !.flag = TRUE]}
        BY DEF Server!SetParticipantStatus
      <3> QED
        BY <2>1, <3>3, <3>4, Zenon DEF b
    <2> QED
      BY <1>6, <2>2, <2>3
  <1>7. CASE host \in {"bitbucket", "bitbucket-server"}
    <2>1. PICK b, given : /\ b = Whole(page, given, refused \cap {"review"}, SeqOf(given.comments))
                          /\ given.comments = set \ refused
                          /\ a = b \/ \E p : b.ok /\ a = [b EXCEPT !.page = p] /\ p \in {b.page, [b.page EXCEPT !.flag = TRUE]}
      BY <1>6, <1>7
    <2>2. given.comments \in SUBSET set /\ set \subseteq given.comments \cup refused
      BY <2>1
    <2> HIDE DEF review
    <2>3. \/ ~b.ok /\ b.page = page /\ "review" \in refused
          \/ /\ b.ok /\ PageOK(b.page) /\ b.page.rows = page.rows /\ b.page.next > page.next
             /\ DOMAIN b = {"ok", "page", "value"} /\ Added(page, b.page, given.comments)
      BY <1>3, <2>1, <2>2
    <2>4. CASE a = b
      BY <1>7, <2>2, <2>3, <2>4
    <2>5. CASE a # b
      <3>1. PICK p : b.ok /\ a = [b EXCEPT !.page = p] /\ p \in {b.page, [b.page EXCEPT !.flag = TRUE]}
        BY <2>1, <2>5
      <3> HIDE DEF review
      <3>2. CASE ~b.ok
        BY <3>1, <3>2
      <3>3. CASE b.ok
        <4> DEFINE o == b.page
        <4>1. /\ DOMAIN b = {"ok", "page", "value"} /\ PageOK(o) /\ o.rows = page.rows /\ o.next > page.next
              /\ Added(page, o, given.comments)
          BY <2>3, <3>3
        <4>2. a.ok /\ a.page = p
          BY <3>1, <3>3, <4>1
        <4> HIDE DEF o
        <4>3. /\ DOMAIN p = PageFields /\ p.rows = o.rows /\ p.next = o.next /\ p.notes = o.notes /\ p.inline = o.inline
          BY <3>1, <4>1 DEF PageOK, PageFields, o
        <4>4. PageOK(p) /\ Added(page, p, given.comments)
          BY <4>1, <4>3 DEF PageOK, Added
        <4> QED
          BY <1>7, <2>2, <4>1, <4>2, <4>3, <4>4
      <3> QED
        BY <2>3, <3>2, <3>3
    <2> QED
      BY <2>4, <2>5
  <1> QED
    BY <1>1, <1>2, <1>4, <1>5, <1>7

-----------------------------------------------------------------------------
(***************************************************************************)
(* The other calls.                                                        *)
(***************************************************************************)

(* The row of one head is changed, and nothing else of the page.            *)
WithRow(p, h, state) == [p EXCEPT !.rows[h] = state]

\* A row that is written is the head's, and nothing else changes.
LEMMA RowSet ==
  ASSUME NEW p, NEW h \in Heads, NEW state \in GitHub!RowStates, NEW q, PageOK(p), q = WithRow(p, h, state)
  PROVE  /\ PageOK(q) /\ q.rows[h] = state
         /\ \A g \in Heads \ {h} : q.rows[g] = p.rows[g]
         /\ q.notes = p.notes /\ q.inline = p.inline /\ q.next = p.next
  <1>1. DOMAIN p = PageFields /\ p.rows \in [Heads -> GitHub!RowStates]
    BY DEF PageOK
  <1>2. q = [p EXCEPT !.rows = [p.rows EXCEPT ![h] = state]]
    BY <1>1 DEF WithRow
  <1>3. /\ DOMAIN q = PageFields /\ q.rows = [p.rows EXCEPT ![h] = state]
        /\ q.notes = p.notes /\ q.inline = p.inline /\ q.next = p.next
    BY <1>1, <1>2 DEF PageFields
  <1> QED
    BY <1>1, <1>3 DEF PageOK

\* The five clients write a row in the same way.
LEMMA HostsSetRowsAlike ==
  ASSUME NEW p, NEW h, NEW state
  PROVE  /\ GitHub!WithRow(p, h, state) = WithRow(p, h, state)
         /\ GitLab!WithRow(p, h, state) = WithRow(p, h, state)
         /\ Bitbucket!WithRow(p, h, state) = WithRow(p, h, state)
         /\ Server!WithRow(p, h, state) = WithRow(p, h, state)
         /\ Azure!WithRow(p, h, state) = WithRow(p, h, state)
  BY DEF WithRow, GitHub!WithRow, GitLab!WithRow, Bitbucket!WithRow, Server!WithRow, Azure!WithRow

(* A row is opened or, refused, there is none.                              *)
LEMMA CreateRowOpens ==
  ASSUME NEW h, NEW refused, NEW a, a = CreateRow(h, refused)
  PROVE  \/ "row" \in refused /\ a.page = page /\ a.value = 0
         \/ a.page = WithRow(page, h, "running") /\ a.value = 1
  <1>1. \/ "row" \in refused /\ a = [ok |-> TRUE, page |-> page, value |-> 0]
        \/ a = [ok |-> TRUE, page |-> WithRow(page, h, "running"), value |-> 1]
    BY HostsSetRowsAlike, Zenon
       DEF CreateRow, GitHub!CreateCheckRun, GitLab!CreateCheckRun, Bitbucket!CreateCheckRun, Server!CreateCheckRun,
           Azure!CreateCheckRun, GitHub!Done, GitLab!Done, Bitbucket!Done, Server!Done, Azure!Done
  <1> QED
    BY <1>1

(* A row is closed; "neutral" is a success on every host but GitHub.        *)
LEMMA UpdateRowCloses ==
  ASSUME NEW h, NEW conclusion \in {"success", "failure", "neutral"}, NEW refused, NEW a,
         a = UpdateRow(page, h, conclusion, refused)
  PROVE  \/ "row" \in refused /\ a.page = page
         \/ \E state \in {"success", "failure", "neutral"} :
              /\ a.page = WithRow(page, h, state)
              /\ conclusion = "failure" => state = "failure"
              /\ state = "success" => conclusion = "success" \/ (conclusion = "neutral" /\ host # "github")
  <1> DEFINE state == IF conclusion = "failure" THEN "failure" ELSE "success"
  <1>1. \/ "row" \in refused /\ a.page = page
        \/ host = "github" /\ a.page = WithRow(page, h, conclusion)
        \/ host # "github" /\ a.page = WithRow(page, h, state)
    <2>1. CASE host = "github"
      <3>1. a = GitHub!UpdateCheckRun(page, h, conclusion, refused)
        BY <2>1, Zenon DEF UpdateRow
      <3>2. CASE "row" \in refused
        <4>1. a = [ok |-> FALSE, page |-> page, value |-> 0]
          BY <3>1, <3>2, Zenon DEF GitHub!UpdateCheckRun, GitHub!Thrown
        <4> QED
          BY <3>2, <4>1
      <3>3. CASE "row" \notin refused
        <4>1. a = [ok |-> TRUE, page |-> WithRow(page, h, conclusion), value |-> 1]
          BY <3>1, <3>3, HostsSetRowsAlike, Zenon DEF GitHub!UpdateCheckRun, GitHub!Done
        <4> QED
          BY <2>1, <4>1
      <3> QED
        BY <3>2, <3>3
    <2>2. CASE host # "github"
      <3>1. \/ "row" \in refused /\ a = [ok |-> TRUE, page |-> page, value |-> 1]
            \/ a = [ok |-> TRUE, page |-> WithRow(page, h, state), value |-> 1]
        BY <2>2, HostsSetRowsAlike, Zenon
           DEF UpdateRow, GitLab!UpdateCheckRun, Bitbucket!UpdateCheckRun, Server!UpdateCheckRun, Azure!UpdateCheckRun,
               GitLab!Done, Bitbucket!Done, Server!Done, Azure!Done,
               GitLab!StatusOf, Bitbucket!StatusOf, Server!StatusOf, Azure!StatusOf
      <3> QED
        BY <2>2, <3>1
    <2> QED
      BY <2>1, <2>2
  <1>2. CASE "row" \in refused /\ a.page = page
    BY <1>2
  <1>3. CASE host = "github" /\ a.page = WithRow(page, h, conclusion)
    BY <1>3
  <1>4. CASE host # "github" /\ a.page = WithRow(page, h, state)
    BY <1>4
  <1> QED
    BY <1>1, <1>2, <1>3, <1>4

(* Of two pages, the second differs only in what its notes say and in the   *)
(* flag.                                                                    *)
NotesSaid(p, q) ==
  /\ PageOK(q) /\ q.rows = p.rows /\ q.next = p.next /\ q.inline = p.inline
  /\ q.notes = p.notes \/ \E say : q.notes = {say[n] : n \in p.notes}
                                /\ \A n \in p.notes : say[n].id = n.id /\ say[n].kind = n.kind

\* The flag of the page touches neither reviews nor comments.
LEMMA FlagSet ==
  ASSUME NEW p, PageOK(p), NEW flag, NEW q, q = [p EXCEPT !.flag = flag]
  PROVE  NotesSaid(p, q)
  <1>1. DOMAIN p = PageFields
    BY DEF PageOK
  <1>2. DOMAIN q = PageFields /\ q.rows = p.rows /\ q.next = p.next /\ q.inline = p.inline /\ q.notes = p.notes
    BY <1>1 DEF PageFields
  <1> QED
    BY <1>2 DEF PageOK, NotesSaid

(* What is refused leaves the page; and only GitHub says so.                *)
LEMMA DismissSays ==
  ASSUME NEW id, NEW refused, NEW a, PageOK(page), a = Dismiss(id, refused)
  PROVE  /\ NotesSaid(page, a.page)
         /\ a.ok \/ (a.page = page /\ "dismiss" \in refused)
  <1>1. NotesSaid(page, page)
    BY DEF NotesSaid
  <1>2. CASE host = "github"
    <2>1. a = GitHub!DismissReview(page, id, refused)
      BY <1>2, Zenon DEF Dismiss
    <2>2. CASE "dismiss" \in refused
      <3>1. a = [ok |-> FALSE, page |-> page, value |-> 0]
        BY <2>1, <2>2, Zenon DEF GitHub!DismissReview, GitHub!Thrown
      <3> QED
        BY <1>1, <2>2, <3>1
    <2>3. CASE "dismiss" \notin refused
      <3> DEFINE say == [n \in page.notes |-> IF n.id = id THEN [n EXCEPT !.state = "DISMISSED"] ELSE n]
      <3> DEFINE q == [page EXCEPT !.notes = {IF n.id = id THEN [n EXCEPT !.state = "DISMISSED"] ELSE n : n \in @}]
      <3>1. a = [ok |-> TRUE, page |-> q, value |-> id]
        BY <2>1, <2>3, Zenon DEF GitHub!DismissReview, GitHub!Done
      <3>2. a.ok /\ a.page = q
        BY <3>1
      <3>3. DOMAIN page = PageFields
        BY DEF PageOK
      <3>4. /\ DOMAIN q = PageFields /\ q.rows = page.rows /\ q.next = page.next /\ q.inline = page.inline
            /\ q.notes = {IF n.id = id THEN [n EXCEPT !.state = "DISMISSED"] ELSE n : n \in page.notes}
        BY <3>3 DEF PageFields
      <3>5. q.notes = {say[n] : n \in page.notes}
        BY <3>4
      <3>6. ASSUME NEW n \in page.notes PROVE say[n].id = n.id /\ say[n].kind = n.kind
        OBVIOUS
      <3>7. IsFiniteSet(q.notes)
        <4>1. say \in Surjection(page.notes, q.notes)
          BY <3>5 DEF Surjection
        <4> HIDE DEF say, q
        <4> QED
          BY <4>1, FS_Surjection DEF PageOK
      <3> HIDE DEF q, say
      <3>8. PageOK(q)
        BY <3>4, <3>7 DEF PageOK
      <3>9. NotesSaid(page, q)
        BY <3>4, <3>5, <3>6, <3>8 DEF NotesSaid
      <3> QED
        BY <3>2, <3>9
    <2> QED
      BY <2>2, <2>3
  <1>3. CASE host # "github"
    <2> DEFINE low == [page EXCEPT !.flag = FALSE]
    <2>1. \/ a = [ok |-> TRUE, page |-> page, value |-> id]
          \/ a = [ok |-> TRUE, page |-> low, value |-> id]
      BY <1>3, Zenon
         DEF Dismiss, GitLab!DismissReview, Bitbucket!DismissReview, Server!DismissReview, Azure!DismissReview,
             GitLab!Done, Bitbucket!Done, Server!Done, Azure!Done, Server!SetParticipantStatus
    <2>2. NotesSaid(page, low)
      BY FlagSet
    <2> HIDE DEF low
    <2>3. a.ok /\ (a.page = page \/ a.page = low)
      BY <2>1
    <2> QED
      BY <1>1, <2>2, <2>3
  <1> QED
    BY <1>2, <1>3

(* The comment with this id is gone from the second page, and nothing else. *)
Without(p, id) == [p EXCEPT !.inline = {c \in @ : c.id # id}]

\* A comment that is removed is the only thing that goes.
LEMMA WithoutOne ==
  ASSUME NEW p, NEW id, NEW q, PageOK(p), q = Without(p, id)
  PROVE  /\ PageOK(q) /\ q.rows = p.rows /\ q.next = p.next /\ q.notes = p.notes
         /\ q.inline = {c \in p.inline : c.id # id}
  <1>1. DOMAIN p = PageFields
    BY DEF PageOK
  <1>2. /\ DOMAIN q = PageFields /\ q.rows = p.rows /\ q.next = p.next /\ q.notes = p.notes
        /\ q.inline = {c \in p.inline : c.id # id}
    BY <1>1 DEF PageFields, Without
  <1>3. IsFiniteSet(q.inline)
    BY <1>2, FS_Subset DEF PageOK
  <1> QED
    BY <1>2, <1>3 DEF PageOK

\* A call to delete removes the comment, or the host refused it.
LEMMA DeleteRemoves ==
  ASSUME NEW id, NEW refused, NEW a, a = DeleteComment(id, refused)
  PROVE  \/ a.page = page /\ refused \cap {"delete", "list"} # {} /\ (host = "github" => ~a.ok /\ "delete" \in refused)
         \/ a.ok /\ a.page = Without(page, id)
  <1>1. CASE host = "github"
    <2>1. a = GitHub!DeleteReviewComment(page, id, refused)
      BY <1>1, Zenon DEF DeleteComment
    <2>2. \/ "delete" \in refused /\ a = [ok |-> FALSE, page |-> page, value |-> 0]
          \/ a = [ok |-> TRUE, page |-> Without(page, id), value |-> id]
      BY <2>1, Zenon DEF GitHub!DeleteReviewComment, GitHub!Thrown, GitHub!Done, GitHub!Without, Without
    <2> QED
      BY <2>2
  <1>2. CASE host # "github"
    <2>1. \/ refused \cap {"delete", "list"} # {} /\ a = [ok |-> TRUE, page |-> page, value |-> id]
          \/ a = [ok |-> TRUE, page |-> Without(page, id), value |-> id]
      <3>1. "delete" \in refused => refused \cap {"delete", "list"} # {}
        OBVIOUS
      <3>2. refused \cap {"list", "delete"} = refused \cap {"delete", "list"}
        OBVIOUS
      <3> QED
        BY <1>2, <3>1, <3>2, Zenon
           DEF DeleteComment, GitLab!DeleteReviewComment, Bitbucket!DeleteReviewComment, Server!DeleteReviewComment,
               Azure!DeleteReviewComment, GitLab!Done, Bitbucket!Done, Server!Done, Azure!Done, Without,
               GitLab!Without, Bitbucket!Without, Server!Without, Azure!Without
    <2> QED
      BY <1>2, <2>1
  <1> QED
    BY <1>1, <1>2

-----------------------------------------------------------------------------
(***************************************************************************)
(* What Posting's variables are at every step.                             *)
(***************************************************************************)
RunFields ==
  {"at", "kind", "head", "row", "found", "carried", "resolved", "known", "post", "remove", "seen", "raced"}

RunSteps ==
  {"summary", "review", "reconcile", "remove", "clear", "dismiss", "delete", "post", "fail", "finish", "save"}

RunOK(r) ==
  \/ r = Idle
  \/ /\ DOMAIN r = RunFields /\ r.at \in RunSteps /\ r.kind \in Kinds /\ r.head \in Heads /\ r.row \in {0, 1}
     /\ r.found \in SUBSET Findings /\ r.carried \in SUBSET Findings /\ r.resolved \in SUBSET Findings
     /\ r.post \in SUBSET Findings /\ r.raced \in BOOLEAN

CmdOK(c) == c = Idle \/ (DOMAIN c = {"at", "seen", "todo"} /\ c.at \in {"dismiss", "delete"})

Shape ==
  /\ host \in Hosts /\ blockOn \in BOOLEAN /\ head \in Heads
  /\ code \in SUBSET Findings /\ ledger \in SUBSET Findings
  /\ PageOK(page) /\ RunOK(run) /\ CmdOK(cmd)
  /\ last \in [Heads -> {"none", "pass", "block"}]

\* The page before the first review.
LEMMA EmptyPageOK ==
  ASSUME PostingAssumption
  PROVE  /\ PageOK(GitHub!EmptyPage(Heads))
         /\ GitHub!EmptyPage(Heads).notes = {} /\ GitHub!EmptyPage(Heads).inline = {}
         /\ \A h \in Heads : GitHub!EmptyPage(Heads).rows[h] = "none"
  BY FS_EmptySet DEF PageOK, PageFields, GitHub!EmptyPage, GitHub!RowStates

\* The types hold at the start,
LEMMA ShapeHoldsFirst ==
  ASSUME PostingAssumption, Init
  PROVE  Shape
  BY EmptyPageOK DEF Init, Unreviewed, Shape, RunOK, CmdOK, Heads, PostingAssumption

(* A run that is not idle has every field, and so has the next one.         *)
LEMMA Running ==
  ASSUME Shape, run.at # "idle"
  PROVE  /\ DOMAIN run = RunFields /\ run.at \in RunSteps /\ run.kind \in Kinds /\ run.head \in Heads /\ run.row \in {0, 1}
         /\ run.found \in SUBSET Findings /\ run.carried \in SUBSET Findings /\ run.resolved \in SUBSET Findings
         /\ run.post \in SUBSET Findings /\ run.raced \in BOOLEAN /\ run # Idle
  BY DEF Shape, RunOK, Idle

(* The row of a run is closed, or the host refused it.                      *)
LEMMA RowClosed ==
  ASSUME PageOK(page), NEW conclusion \in {"success", "failure", "neutral"}, NEW refused, run.head \in Heads,
         CloseRow(conclusion, refused)
  PROVE  /\ PageOK(page') /\ page'.notes = page.notes /\ page'.inline = page.inline /\ page'.next = page.next
         /\ \A g \in Heads \ {run.head} : page'.rows[g] = page.rows[g]
         /\ \/ page'.rows = page.rows /\ (run.row = 0 \/ "row" \in refused)
            \/ /\ page'.rows[run.head] \in {"success", "failure", "neutral"}
               /\ conclusion = "failure" => page'.rows[run.head] = "failure"
               /\ page'.rows[run.head] = "success" => conclusion = "success" \/ (conclusion = "neutral" /\ host # "github")
  <1>1. CASE run.row = 0
    BY <1>1 DEF CloseRow
  <1>2. CASE run.row # 0
    <2>1. PICK a : a = UpdateRow(page, run.head, conclusion, refused)
      OBVIOUS
    <2>2. page' = a.page
      BY <1>2, <2>1 DEF CloseRow
    <2>3. CASE "row" \in refused /\ a.page = page
      BY <2>2, <2>3
    <2>4. CASE ~("row" \in refused /\ a.page = page)
      <3>1. PICK state \in {"success", "failure", "neutral"} :
              /\ a.page = WithRow(page, run.head, state)
              /\ conclusion = "failure" => state = "failure"
              /\ state = "success" => conclusion = "success" \/ (conclusion = "neutral" /\ host # "github")
        BY <2>1, <2>4, UpdateRowCloses
      <3>2. page' = WithRow(page, run.head, state) /\ state \in GitHub!RowStates
        BY <2>2, <3>1 DEF GitHub!RowStates
      <3> QED
        BY <3>1, <3>2, RowSet
    <2> QED
      BY <2>3, <2>4
  <1> QED
    BY <1>1, <1>2

(* A deleted comment leaves the page as it should be.                       *)
LEMMA CommentDeleted ==
  ASSUME PageOK(page), NEW id, NEW refused, NEW q, q = DeleteComment(id, refused).page
  PROVE  /\ PageOK(q) /\ q.rows = page.rows /\ q.next = page.next /\ q.notes = page.notes
         /\ \/ q.inline = page.inline /\ refused \cap {"delete", "list"} # {}
            \/ q.inline = {c \in page.inline : c.id # id}
  <1>1. PICK a : a = DeleteComment(id, refused)
    OBVIOUS
  <1>2. CASE a.page = page /\ refused \cap {"delete", "list"} # {}
    BY <1>1, <1>2
  <1>3. CASE a.page = Without(page, id)
    BY <1>1, <1>3, WithoutOne
  <1> QED
    BY <1>1, <1>2, <1>3, DeleteRemoves

\* Dismissing a review leaves the comments.
LEMMA ReviewDismissed ==
  ASSUME PageOK(page), NEW id, NEW refused, NEW q, q = Dismiss(id, refused).page
  PROVE  NotesSaid(page, q)
  <1>1. PICK a : a = Dismiss(id, refused)
    OBVIOUS
  <1> QED
    BY <1>1, DismissSays

\* and every step keeps them.
LEMMA ShapeStays ==
  ASSUME PostingAssumption, Shape, [Next]_vars
  PROVE  Shape'
  <1>0. /\ host \in Hosts /\ blockOn \in BOOLEAN /\ head \in Heads
        /\ code \in SUBSET Findings /\ ledger \in SUBSET Findings /\ PageOK(page)
        /\ last \in [Heads -> {"none", "pass", "block"}]
    BY DEF Shape
  <1>1. CASE UNCHANGED vars
    BY <1>1 DEF Shape, vars, RunOK, CmdOK, PageOK
  <1>2. ASSUME NEW to \in SUBSET Findings, Push(to) PROVE Shape'
    BY <1>2 DEF Shape, Push, RunOK, CmdOK, PageOK, Heads, PostingAssumption
  <1>3. ASSUME NEW kind \in Kinds, NEW refused, Start(kind, refused) PROVE Shape'
    <2>1. PICK row : row = CreateRow(head, refused)
      OBVIOUS
    <2>2. PageOK(page') /\ row.value \in {0, 1}
      <3>1. page' = row.page
        BY <1>3, <2>1 DEF Start
      <3>2. "running" \in GitHub!RowStates
        BY DEF GitHub!RowStates
      <3> QED
        BY <1>0, <2>1, <3>1, <3>2, CreateRowOpens, RowSet
    <2>3. RunOK(run')
      BY <1>0, <1>3, <2>1, <2>2 DEF Start, RunOK, RunFields, RunSteps, Idle
    <2> QED
      BY <1>0, <1>3, <2>2, <2>3 DEF Start, Shape, CmdOK
  <1>4. ASSUME NEW refused, RunSummaryOnly(refused) PROVE Shape'
    <2>1. PageOK(page')
      BY <1>0, <1>4, Running, RowClosed DEF RunSummaryOnly
    <2> QED
      BY <1>0, <1>4, <2>1 DEF RunSummaryOnly, Shape, RunOK, CmdOK
  <1>5. ASSUME NEW found \in SUBSET Findings, NEW refused, Fold(found, refused) PROVE Shape'
    <2>1. RunOK(run')
      BY <1>0, <1>5, Running DEF Fold, RunOK, RunFields, RunSteps, Idle
    <2> QED
      BY <1>0, <1>5, <2>1 DEF Fold, Shape, CmdOK, PageOK
  <1>6. ASSUME NEW refused, Reconcile(refused) PROVE Shape'
    <2> DEFINE plan == ReconcileInlineComments(GitHub!ListOwnInlineComments(page, refused), run.found, run.resolved)
    <2>1. plan.post \in SUBSET run.found
      BY DEF ReconcileInlineComments
    <2>2. run' = [run EXCEPT !.at = "remove", !.post = plan.post, !.remove = plan.remove]
      BY <1>6 DEF Reconcile
    <2> HIDE DEF plan
    <2>3. RunOK(run')
      BY <1>6, <2>1, <2>2, Running DEF Reconcile, RunOK, RunFields, RunSteps, Idle
    <2> QED
      BY <1>0, <1>6, <2>3 DEF Reconcile, Shape, CmdOK, PageOK
  <1>7. ASSUME NEW refused, Remove(refused) PROVE Shape'
    <2>1. PageOK(page')
      BY <1>0, <1>7, CommentDeleted DEF Remove
    <2>2. RunOK(run')
      BY <1>7, Running DEF Remove, RunGoesTo, RunOK, RunFields, RunSteps, Idle
    <2> QED
      BY <1>0, <1>7, <2>1, <2>2 DEF Remove, Shape, CmdOK
  <1>8. ASSUME NEW refused, ClearPrevious(refused) PROVE Shape'
    <2>1. RunOK(run')
      BY <1>8, Running DEF ClearPrevious, RunOK, RunFields, RunSteps, Idle
    <2> QED
      BY <1>0, <1>8, <2>1 DEF ClearPrevious, Shape, CmdOK, PageOK
  <1>9. ASSUME NEW refused, ClearDismiss(refused) PROVE Shape'
    <2>1. PageOK(page')
      BY <1>0, <1>9, ReviewDismissed DEF ClearDismiss, NotesSaid
    <2>2. RunOK(run')
      BY <1>9, Running DEF ClearDismiss, RunOK, RunFields, RunSteps, Idle
    <2> QED
      BY <1>0, <1>9, <2>1, <2>2 DEF ClearDismiss, Shape, CmdOK
  <1>10. ASSUME NEW refused, ClearDelete(refused) PROVE Shape'
    <2>1. PageOK(page')
      BY <1>0, <1>10, CommentDeleted DEF ClearDelete
    <2>2. RunOK(run')
      BY <1>10, Running DEF ClearDelete, RunGoesTo, RunOK, RunFields, RunSteps, Idle
    <2> QED
      BY <1>0, <1>10, <2>1, <2>2 DEF ClearDelete, Shape, CmdOK
  <1>11. ASSUME NEW refused, Post(refused) PROVE Shape'
    <2> DEFINE event == IF RequestChanges THEN "REQUEST_CHANGES" ELSE "COMMENT"
    <2>1. PICK a : a = PostReview([event |-> event, comments |-> run.post], refused)
      OBVIOUS
    <2>2. /\ page' = a.page
          /\ last' = IF a.ok THEN [last EXCEPT ![run.head] = IF WantsBlock THEN "block" ELSE "pass"] ELSE last
      BY <1>11, <2>1 DEF Post
    <2> HIDE DEF event
    <2>3. run.post \in SUBSET Findings /\ run.head \in Heads
      BY <1>11, Running DEF Post
    <2>4. PageOK(page')
      BY <1>0, <2>1, <2>2, <2>3, PostAdds
    <2>5. RunOK(run')
      BY <1>11, Running DEF Post, RunGoesTo, RunOK, RunFields, RunSteps, Idle
    <2>6. last' \in [Heads -> {"none", "pass", "block"}]
      BY <1>0, <2>2, <2>3
    <2> QED
      BY <1>0, <1>11, <2>4, <2>5, <2>6 DEF Post, Shape, CmdOK
  <1>12. ASSUME NEW refused, Fail(refused) PROVE Shape'
    <2>1. PageOK(page')
      BY <1>0, <1>12, Running, RowClosed DEF Fail
    <2> QED
      BY <1>0, <1>12, <2>1 DEF Fail, Shape, RunOK, CmdOK
  <1>13. ASSUME NEW refused, FinishRow(refused) PROVE Shape'
    <2>1. PageOK(page')
      BY <1>0, <1>13, Running, RowClosed DEF FinishRow
    <2>2. RunOK(run')
      BY <1>13, Running DEF FinishRow, RunGoesTo, RunOK, RunFields, RunSteps, Idle
    <2> QED
      BY <1>0, <1>13, <2>1, <2>2 DEF FinishRow, Shape, CmdOK
  <1>14. ASSUME NEW refused, SaveLedger(refused) PROVE Shape'
    BY <1>0, <1>14, Running DEF SaveLedger, Shape, RunOK, CmdOK, PageOK
  <1>15. ASSUME NEW refused, ResolveList(refused) PROVE Shape'
    <2>1. RunOK(run')
      <3>1. CASE run = Idle
        BY <1>15, <3>1 DEF ResolveList, RunOK
      <3>2. CASE run # Idle
        <4>1. run.at # "idle"
          BY <3>2 DEF Shape, RunOK, RunSteps
        <4> QED
          BY <1>15, <3>2, <4>1, Running DEF ResolveList, RunOK, RunFields, RunSteps, Idle
      <3> QED
        BY <3>1, <3>2
    <2> QED
      BY <1>0, <1>15, <2>1 DEF ResolveList, Shape, CmdOK, PageOK
  <1>16. ASSUME NEW refused, ResolveDismiss(refused) PROVE Shape'
    <2>1. PageOK(page')
      BY <1>0, <1>16, ReviewDismissed DEF ResolveDismiss, NotesSaid
    <2>2. CmdOK(cmd')
      <3>1. DOMAIN cmd = {"at", "seen", "todo"} /\ cmd.at = "dismiss"
        BY <1>16 DEF ResolveDismiss, Shape, CmdOK, Idle
      <3>2. PICK ids : ids = CommentIds(cmd.seen, refused)
        OBVIOUS
      <3>3. \/ cmd' = [cmd EXCEPT !.at = "delete", !.todo = ids]
            \/ cmd' = [cmd EXCEPT !.todo = @ \ {First(cmd.todo)}]
            \/ cmd' = Idle
        BY <1>16, <3>2, Zenon DEF ResolveDismiss
      <3> QED
        BY <3>1, <3>3 DEF CmdOK
    <2> QED
      BY <1>0, <1>16, <2>1, <2>2 DEF ResolveDismiss, Shape, RunOK
  <1>17. ASSUME NEW refused, ResolveDelete(refused) PROVE Shape'
    <2>1. PageOK(page')
      BY <1>0, <1>17, CommentDeleted DEF ResolveDelete
    <2>2. CmdOK(cmd')
      BY <1>17 DEF ResolveDelete, Shape, CmdOK, Idle
    <2> QED
      BY <1>0, <1>17, <2>1, <2>2 DEF ResolveDelete, Shape, RunOK
  <1>18. ASSUME NEW refused, ResolveLedger(refused) PROVE Shape'
    BY <1>0, <1>18 DEF ResolveLedger, Shape, RunOK, CmdOK, PageOK
  <1> QED
    BY <1>1, <1>2, <1>3, <1>4, <1>5, <1>6, <1>7, <1>8, <1>9, <1>10, <1>11, <1>12, <1>13, <1>14, <1>15, <1>16, <1>17,
       <1>18 DEF Next

-----------------------------------------------------------------------------
(***************************************************************************)
(* Green rows.                                                             *)
(***************************************************************************)

(* Until its row is closed, the row of a run's head is running; once the    *)
(* review is on the page, last is what it asked for.                        *)
GreenInv ==
  /\ run # Idle /\ run.row = 0 => "row" \in failed
  /\ run # Idle /\ run.at # "save" => page.rows[run.head] = "running" \/ "row" \in failed
  /\ run.at = "finish" => last[run.head] = IF WantsBlock THEN "block" ELSE "pass"
  /\ run.at = "fail" => host = "github" \/ failed \cap {"review", "answer"} # {}
  /\ GreenOnlyIfAsked

SameHost == host' = host /\ blockOn' = blockOn

\* What a host can do is settled by which host it is.
LEMMA CapabilitySame ==
  ASSUME SameHost
  PROVE  Capability' = Capability
  BY Zenon DEF SameHost, Capability

(* What changes no row and no verdict disturbs none of it.                  *)
LEMMA GreenUntouched ==
  ASSUME GreenInv, SameHost, page'.rows = page.rows, last' = last,
         failed \subseteq failed', summaries' = summaries,
         \/ run' = Idle
         \/ /\ run # Idle /\ run'.head = run.head /\ run'.row = run.row
            /\ run'.at \in {"finish", "fail"} => run'.at = run.at /\ run'.found = run.found /\ run'.carried = run.carried
            /\ run'.at # "save" => run.at # "save"
  PROVE  GreenInv'
  <1>1. Capability' = Capability
    BY CapabilitySame
  <1>2. GreenOnlyIfAsked'
    BY <1>1 DEF GreenInv, GreenOnlyIfAsked, SameHost
  <1>3. CASE run' = Idle
    BY <1>2, <1>3 DEF GreenInv, Idle
  <1>4. CASE run' # Idle
    <2>1. run'.at = "finish" => WantsBlock' = WantsBlock
      BY <1>4 DEF WantsBlock, SameHost
    <2> QED
      BY <1>2, <1>4, <2>1 DEF GreenInv, SameHost
  <1> QED
    BY <1>3, <1>4

\* No row is green at the start,
LEMMA GreenHoldsFirst ==
  ASSUME PostingAssumption, Init
  PROVE  GreenInv
  <1>1. run.at = "idle" /\ run = Idle
    BY DEF Init, Unreviewed, Idle
  <1>2. \A h \in Heads : page.rows[h] = "none"
    BY EmptyPageOK DEF Init, Unreviewed
  <1> QED
    BY <1>1, <1>2 DEF GreenInv, GreenOnlyIfAsked

\* and every step keeps a green row earned or excused.
LEMMA GreenStays ==
  ASSUME PostingAssumption, Shape, Shape', GreenInv, [Next]_vars
  PROVE  GreenInv'
  <1>0. PageOK(page) /\ host \in Hosts /\ last \in [Heads -> {"none", "pass", "block"}] /\ head \in Heads
    BY DEF Shape
  <1>1. CASE UNCHANGED vars
    BY <1>1 DEF vars, GreenInv, GreenOnlyIfAsked, Capability, WantsBlock
  <1>2. ASSUME NEW to \in SUBSET Findings, Push(to) PROVE GreenInv'
    <2>1. run = Idle \/ run # Idle
      OBVIOUS
    <2> QED
      BY <1>2, <2>1, GreenUntouched DEF Push, SameHost
  <1>3. ASSUME NEW kind \in Kinds, NEW refused, Start(kind, refused) PROVE GreenInv'
    <2>1. PICK row : row = CreateRow(head, refused)
      OBVIOUS
    <2>2. /\ page' = row.page /\ run'.row = row.value /\ run'.head = head /\ run'.at \in {"summary", "review"}
          /\ failed' = failed \cup refused /\ SameHost /\ last' = last /\ summaries' = summaries
      BY <1>3, <2>1 DEF Start, Faulted, SameHost
    <2>3. \/ "row" \in failed' /\ page' = page
          \/ row.value = 1 /\ page' = WithRow(page, head, "running")
      BY <2>1, <2>2, CreateRowOpens
    <2>4. CASE "row" \in failed' /\ page' = page
      BY <2>2, <2>4, CapabilitySame DEF GreenInv, GreenOnlyIfAsked
    <2>5. CASE row.value = 1 /\ page' = WithRow(page, head, "running")
      <3>1. page'.rows[head] = "running" /\ \A g \in Heads \ {head} : page'.rows[g] = page.rows[g]
        BY <1>0, <2>5, RowSet DEF GitHub!RowStates
      <3>2. GreenOnlyIfAsked'
        BY <2>2, <3>1, CapabilitySame DEF GreenInv, GreenOnlyIfAsked, SameHost
      <3> QED
        BY <2>2, <2>5, <3>1, <3>2 DEF GreenInv
    <2> QED
      BY <2>3, <2>4, <2>5
  <1>4. ASSUME NEW refused, RunSummaryOnly(refused) PROVE GreenInv'
    <2>1. /\ CloseRow("success", refused) /\ run' = Idle /\ summaries' = summaries \cup {run.head}
          /\ failed' = failed \cup refused /\ SameHost /\ last' = last /\ run.head \in Heads
      BY <1>4, Running DEF RunSummaryOnly, Faulted, SameHost
    <2>2. \A g \in Heads \ {run.head} : page'.rows[g] = page.rows[g]
      BY <1>0, <2>1, RowClosed
    <2>3. GreenOnlyIfAsked'
      BY <2>1, <2>2, CapabilitySame DEF GreenInv, GreenOnlyIfAsked, SameHost
    <2> QED
      BY <2>1, <2>3 DEF GreenInv, Idle
  <1>5. ASSUME NEW found \in SUBSET Findings, NEW refused, Fold(found, refused) PROVE GreenInv'
    <2>1. /\ run # Idle /\ run'.head = run.head /\ run'.row = run.row /\ run'.at \in {"clear", "reconcile", "post"}
          /\ run.at # "save"
      BY <1>5, Running DEF Fold, RunFields
    <2> QED
      BY <1>5, <2>1, GreenUntouched DEF Fold, SameHost, Faulted
  <1>6. ASSUME NEW refused, Reconcile(refused) PROVE GreenInv'
    <2>1. /\ run # Idle /\ run'.head = run.head /\ run'.row = run.row /\ run'.at = "remove" /\ run.at # "save"
      BY <1>6, Running DEF Reconcile, RunFields
    <2> QED
      BY <1>6, <2>1, GreenUntouched DEF Reconcile, SameHost, Faulted
  <1>7. ASSUME NEW refused, Remove(refused) PROVE GreenInv'
    <2>1. /\ run # Idle /\ run'.head = run.head /\ run'.row = run.row /\ run'.at \in {"remove", "post"} /\ run.at # "save"
      BY <1>7, Running DEF Remove, RunGoesTo, RunFields
    <2>2. page'.rows = page.rows
      BY <1>0, <1>7, CommentDeleted DEF Remove
    <2> QED
      BY <1>7, <2>1, <2>2, GreenUntouched DEF Remove, SameHost, Faulted
  <1>8. ASSUME NEW refused, ClearPrevious(refused) PROVE GreenInv'
    <2>1. /\ run # Idle /\ run'.head = run.head /\ run'.row = run.row /\ run'.at \in {"dismiss", "post"} /\ run.at # "save"
      BY <1>8, Running DEF ClearPrevious, RunFields
    <2> QED
      BY <1>8, <2>1, GreenUntouched DEF ClearPrevious, SameHost, Faulted
  <1>9. ASSUME NEW refused, ClearDismiss(refused) PROVE GreenInv'
    <2>1. /\ run # Idle /\ run'.head = run.head /\ run'.row = run.row /\ run'.at \in {"dismiss", "delete", "post"}
          /\ run.at # "save"
      BY <1>9, Running DEF ClearDismiss, RunFields
    <2>2. page'.rows = page.rows
      BY <1>0, <1>9, ReviewDismissed DEF ClearDismiss, NotesSaid
    <2> QED
      BY <1>9, <2>1, <2>2, GreenUntouched DEF ClearDismiss, SameHost, Faulted
  <1>10. ASSUME NEW refused, ClearDelete(refused) PROVE GreenInv'
    <2>1. /\ run # Idle /\ run'.head = run.head /\ run'.row = run.row /\ run'.at \in {"delete", "post"} /\ run.at # "save"
      BY <1>10, Running DEF ClearDelete, RunGoesTo, RunFields
    <2>2. page'.rows = page.rows
      BY <1>0, <1>10, CommentDeleted DEF ClearDelete
    <2> QED
      BY <1>10, <2>1, <2>2, GreenUntouched DEF ClearDelete, SameHost, Faulted
  <1>11. ASSUME NEW refused, Post(refused) PROVE GreenInv'
    <2> DEFINE event == IF RequestChanges THEN "REQUEST_CHANGES" ELSE "COMMENT"
    <2>1. PICK a : a = PostReview([event |-> event, comments |-> run.post], refused)
      OBVIOUS
    <2>2. /\ page' = a.page
          /\ last' = IF a.ok THEN [last EXCEPT ![run.head] = IF WantsBlock THEN "block" ELSE "pass"] ELSE last
          /\ RunGoesTo(IF a.ok /\ "answer" \notin refused THEN "finish" ELSE "fail")
      BY <1>11, <2>1 DEF Post
    <2> HIDE DEF event
    <2>3. /\ run # Idle /\ DOMAIN run = RunFields /\ run.head \in Heads /\ run.at # "save" /\ run.post \in SUBSET Findings
      BY <1>11, Running DEF Post
    <2>4. /\ run'.head = run.head /\ run'.row = run.row /\ run'.found = run.found /\ run'.carried = run.carried
          /\ run'.at = IF a.ok /\ "answer" \notin refused THEN "finish" ELSE "fail"
      BY <2>2, <2>3 DEF RunGoesTo, RunFields
    <2>5. failed' = failed \cup refused /\ SameHost /\ summaries' = summaries
      BY <1>11 DEF Post, Faulted, SameHost
    <2>6. \/ ~a.ok /\ a.page = page /\ (host = "github" \/ "review" \in refused)
          \/ a.ok /\ a.page.rows = page.rows
      BY <1>0, <2>1, <2>3, PostAdds
    <2>7. page'.rows = page.rows
      BY <2>2, <2>6
    <2>8. WantsBlock' = WantsBlock
      BY <2>4, <2>5 DEF WantsBlock, SameHost
    <2>9. page.rows[run.head] = "running" \/ "row" \in failed
      BY <2>3 DEF GreenInv
    <2>10. GreenOnlyIfAsked'
      <3> SUFFICES ASSUME NEW h \in Heads, page'.rows[h] = "success", last'[h] = "block", "row" \notin failed'
                   PROVE  \/ ~Capability'.blockingReview
                          \/ h \in summaries'
                          \/ failed' \cap {"review", "answer"} # {} /\ host' # "github"
        BY DEF GreenOnlyIfAsked
      <3>1. h # run.head
        BY <2>5, <2>7, <2>9
      <3>2. last[h] = "block" /\ page.rows[h] = "success" /\ "row" \notin failed
        BY <1>0, <2>2, <2>3, <2>5, <2>7, <3>1
      <3> QED
        BY <2>5, <3>2, CapabilitySame DEF GreenInv, GreenOnlyIfAsked, SameHost
    <2>11. run'.at = "finish" => last'[run'.head] = IF WantsBlock' THEN "block" ELSE "pass"
      BY <1>0, <2>2, <2>3, <2>4, <2>8
    <2>12. run'.at = "fail" => host' = "github" \/ failed' \cap {"review", "answer"} # {}
      BY <2>4, <2>5, <2>6 DEF SameHost
    <2>13. run'.row = 0 => "row" \in failed'
      BY <2>3, <2>4, <2>5 DEF GreenInv
    <2> QED
      BY <2>4, <2>5, <2>7, <2>9, <2>10, <2>11, <2>12, <2>13 DEF GreenInv
  <1>12. ASSUME NEW refused, Fail(refused) PROVE GreenInv'
    <2>1. /\ CloseRow("neutral", refused) /\ run' = Idle /\ summaries' = summaries /\ run # Idle
          /\ failed' = failed \cup refused /\ SameHost /\ last' = last /\ run.head \in Heads /\ run.at = "fail"
      BY <1>12, Running DEF Fail, Faulted, SameHost
    <2>2. /\ \A g \in Heads \ {run.head} : page'.rows[g] = page.rows[g]
          /\ \/ page'.rows = page.rows
             \/ page'.rows[run.head] = "success" => host # "github"
      BY <1>0, <2>1, RowClosed
    <2>3. host = "github" \/ failed \cap {"review", "answer"} # {}
      BY <2>1 DEF GreenInv
    <2>4. GreenOnlyIfAsked'
      BY <2>1, <2>2, <2>3, CapabilitySame DEF GreenInv, GreenOnlyIfAsked, SameHost
    <2> QED
      BY <2>1, <2>4 DEF GreenInv, Idle
  <1>13. ASSUME NEW refused, FinishRow(refused) PROVE GreenInv'
    <2> DEFINE conclusion == IF RequestChanges THEN "failure" ELSE "success"
    <2>1. /\ CloseRow(conclusion, refused) /\ summaries' = summaries /\ run # Idle /\ DOMAIN run = RunFields
          /\ failed' = failed \cup refused /\ SameHost /\ last' = last /\ run.head \in Heads /\ run.at = "finish"
      BY <1>13, Running DEF FinishRow, Faulted, SameHost
    <2>2. run'.at = "save" /\ run'.head = run.head /\ run'.row = run.row
      BY <1>13, <2>1 DEF FinishRow, RunGoesTo, RunFields
    <2>3. conclusion \in {"success", "failure", "neutral"} /\ conclusion # "neutral"
          /\ (conclusion = "success" => ~RequestChanges)
      OBVIOUS
    <2> HIDE DEF conclusion
    <2>4. /\ \A g \in Heads \ {run.head} : page'.rows[g] = page.rows[g]
          /\ \/ page'.rows = page.rows
             \/ page'.rows[run.head] = "success" => ~RequestChanges
      BY <1>0, <2>1, <2>3, RowClosed
    <2>5. last[run.head] = "block" => WantsBlock
      BY <2>1 DEF GreenInv
    <2>6. GreenOnlyIfAsked'
      BY <2>1, <2>4, <2>5, CapabilitySame DEF GreenInv, GreenOnlyIfAsked, SameHost, RequestChanges
    <2> QED
      BY <2>1, <2>2, <2>6 DEF GreenInv
  <1>14. ASSUME NEW refused, SaveLedger(refused) PROVE GreenInv'
    BY <1>14, GreenUntouched DEF SaveLedger, SameHost, Faulted
  <1>15. ASSUME NEW refused, ResolveList(refused) PROVE GreenInv'
    <2>1. \/ run' = Idle
          \/ /\ run # Idle /\ run'.head = run.head /\ run'.row = run.row /\ run'.at = run.at
             /\ run'.found = run.found /\ run'.carried = run.carried
      <3>1. CASE run = Idle
        BY <1>15, <3>1 DEF ResolveList
      <3>2. CASE run # Idle
        <4>1. DOMAIN run = RunFields
          BY <3>2 DEF Shape, RunOK
        <4> QED
          BY <1>15, <3>2, <4>1 DEF ResolveList, RunFields
      <3> QED
        BY <3>1, <3>2
    <2> QED
      BY <1>15, <2>1, GreenUntouched DEF ResolveList, SameHost, Faulted
  <1>16. ASSUME NEW refused, ResolveDismiss(refused) PROVE GreenInv'
    <2>1. page'.rows = page.rows
      BY <1>0, <1>16, ReviewDismissed DEF ResolveDismiss, NotesSaid
    <2> QED
      BY <1>16, <2>1, GreenUntouched DEF ResolveDismiss, SameHost, Faulted
  <1>17. ASSUME NEW refused, ResolveDelete(refused) PROVE GreenInv'
    <2>1. page'.rows = page.rows
      BY <1>0, <1>17, CommentDeleted DEF ResolveDelete
    <2> QED
      BY <1>17, <2>1, GreenUntouched DEF ResolveDelete, SameHost, Faulted
  <1>18. ASSUME NEW refused, ResolveLedger(refused) PROVE GreenInv'
    BY <1>18, GreenUntouched DEF ResolveLedger, SameHost, Faulted
  <1> QED
    BY <1>1, <1>2, <1>3, <1>4, <1>5, <1>6, <1>7, <1>8, <1>9, <1>10, <1>11, <1>12, <1>13, <1>14, <1>15, <1>16, <1>17,
       <1>18 DEF Next

\* Hence the types of every reachable state.
LEMMA ShapeAlways ==
  ASSUME PostingAssumption
  PROVE  Spec => []Shape
  BY ShapeHoldsFirst, ShapeStays, PTL DEF Spec

(* A head whose last review asked for a block is green only where no review *)
(* can hold the merge, after a summary, when the row could not be written,  *)
(* or when the post failed on a host whose rows cannot say so.              *)
THEOREM GreenIsAsked ==
  ASSUME PostingAssumption
  PROVE  Spec => []GreenOnlyIfAsked
  <1>1. GreenInv => GreenOnlyIfAsked
    BY DEF GreenInv
  <1> QED
    BY <1>1, ShapeAlways, GreenHoldsFirst, GreenStays, PTL DEF Spec

-----------------------------------------------------------------------------
(***************************************************************************)
(* Threads.                                                                *)
(***************************************************************************)
LEMMA LowestOf ==
  ASSUME NEW ids, ids \subseteq Nat, ids # {}
  PROVE  \E i \in ids : \A j \in ids : i <= j
  <1>1. PICK i \in ids : \A j \in ids : ~(<<j, i>> \in OpToRel(<, Nat))
    BY NatLessThanWellFounded, WFMin
  <1>2. \A j \in ids : ~(j < i)
    BY <1>1 DEF OpToRel
  <1> QED
    BY <1>2

\* The lowest of some ids is one of them.
LEMMA FirstIsOne ==
  ASSUME NEW ids, ids \subseteq Nat, ids # {}
  PROVE  First(ids) \in ids
  BY LowestOf DEF First

(* Of a finding's comments the oldest is kept.                              *)
LEMMA KeptIsOldest ==
  ASSUME NEW existing, NEW e \in existing, \A c \in existing : c.id \in Nat
  PROVE  LET k == KeptComment(existing, e.fp)
         IN k \in existing /\ k.fp = e.fp /\ \A d \in existing : d.fp = e.fp => k.id <= d.id
  <1> DEFINE copies == {c \in existing : c.fp = e.fp}
  <1> DEFINE ids == {c.id : c \in copies}
  <1>1. ids \subseteq Nat /\ e.id \in ids
    OBVIOUS
  <1>2. PICK i \in ids : \A j \in ids : i <= j
    BY <1>1, LowestOf
  <1>3. PICK c \in existing : c.fp = e.fp /\ c.id = i
    OBVIOUS
  <1>4. \A d \in existing : d.fp = e.fp => c.id <= d.id
    BY <1>2, <1>3
  <1>5. \E k \in existing : k.fp = e.fp /\ \A d \in existing : d.fp = e.fp => k.id <= d.id
    BY <1>3, <1>4
  <1> QED
    BY <1>5, Zenon DEF KeptComment

(* The comments to delete on page p: each was fixed or has an older copy    *)
(* that stays.                                                              *)
Spares(p, remove, resolved) ==
  /\ remove \subseteq Nat
  /\ \A c \in p.inline : c.id \in remove =>
       c.fp \in resolved \/ \E d \in p.inline : d.fp = c.fp /\ d.id < c.id /\ d.id \notin remove

(* A review beside which no resolve runs has the page to itself.            *)
ReplyInv ==
  /\ run # Idle /\ ~run.raced => cmd = Idle
  /\ run.at \in {"clear", "dismiss", "delete"} => run.kind = "review"
  /\ run.at = "remove" => run.remove \subseteq Nat
  /\ run.at = "remove" /\ ~run.raced => Spares(page, run.remove, run.resolved)

\* What a plan removes was resolved, or has an older copy that stays.
LEMMA ReconcileSpares ==
  ASSUME PageOK(page), NEW existing, existing \subseteq page.inline, NEW incoming, NEW resolved,
         NEW plan, plan = ReconcileInlineComments(existing, incoming, resolved)
  PROVE  Spares(page, plan.remove, resolved)
  <1> DEFINE again == {d \in existing : d.fp \in incoming /\ d # KeptComment(existing, d.fp)}
  <1> DEFINE fixed == {d \in existing : d.fp \in resolved \ incoming}
  <1>1. plan.remove = {c.id : c \in again} \cup {c.id : c \in fixed}
    BY DEF ReconcileInlineComments
  <1>2. /\ \A c \in page.inline : c.id \in Nat
        /\ \A c, d \in page.inline : c.id = d.id => c = d
    BY DEF PageOK
  <1>3. plan.remove \subseteq Nat
    BY <1>1, <1>2
  <1>4. ASSUME NEW c \in page.inline, c.id \in plan.remove PROVE c \in again \/ c \in fixed
    <2>1. PICK d \in existing : d.id = c.id /\ (d \in again \/ d \in fixed)
      BY <1>1, <1>4
    <2>2. c = d
      BY <1>2, <2>1
    <2> QED
      BY <2>1, <2>2
  <1>5. ASSUME NEW c \in page.inline, c.id \in plan.remove
        PROVE  c.fp \in resolved \/ \E d \in page.inline : d.fp = c.fp /\ d.id < c.id /\ d.id \notin plan.remove
    <2>1. CASE c \in fixed
      BY <2>1
    <2>2. CASE c \in again
      <3> DEFINE k == KeptComment(existing, c.fp)
      <3>1. c \in existing /\ c.fp \in incoming /\ c # k
        BY <2>2
      <3>2. k \in existing /\ k.fp = c.fp /\ k.id <= c.id
        BY <1>2, <3>1, KeptIsOldest
      <3>3. k.id < c.id
        BY <1>2, <3>1, <3>2
      <3>4. k \notin again /\ k \notin fixed
        BY <3>1, <3>2
      <3>5. k.id \notin plan.remove
        BY <1>4, <3>2, <3>4
      <3> QED
        BY <3>2, <3>3, <3>5
    <2> QED
      BY <1>4, <1>5, <2>1, <2>2
  <1> QED
    BY <1>3, <1>5 DEF Spares

(* One of them is deleted, or was to be: those left are still spared for.   *)
LEMMA SparesOn ==
  ASSUME NEW p, NEW q, NEW remove, NEW resolved, NEW id, Spares(p, remove, resolved), id \in remove,
         q.inline = p.inline \/ q.inline = {c \in p.inline : c.id # id}
  PROVE  /\ Spares(q, remove \ {id}, resolved)
         /\ \A c \in p.inline : c \notin q.inline =>
              c.fp \in resolved \/ \E d \in q.inline : d.fp = c.fp /\ d.id < c.id
  <1>1. ASSUME NEW c \in p.inline, c.id \in remove
        PROVE  c.fp \in resolved \/ \E d \in q.inline : d.fp = c.fp /\ d.id < c.id /\ d.id \notin remove
    <2>1. CASE c.fp \in resolved
      BY <2>1
    <2>2. CASE c.fp \notin resolved
      <3>1. PICK d \in p.inline : d.fp = c.fp /\ d.id < c.id /\ d.id \notin remove
        BY <1>1, <2>2 DEF Spares
      <3>2. d \in q.inline
        BY <3>1
      <3> QED
        BY <3>1, <3>2
    <2> QED
      BY <2>1, <2>2
  <1>2. q.inline \subseteq p.inline /\ \A c \in p.inline : c \notin q.inline => c.id \in remove
    OBVIOUS
  <1>3. Spares(q, remove \ {id}, resolved)
    <2>1. remove \ {id} \subseteq Nat
      BY DEF Spares
    <2>2. ASSUME NEW c \in q.inline, c.id \in remove \ {id}
          PROVE  c.fp \in resolved \/ \E d \in q.inline : d.fp = c.fp /\ d.id < c.id /\ d.id \notin remove \ {id}
      BY <1>1, <1>2, <2>2
    <2> QED
      BY <2>1, <2>2 DEF Spares
  <1> QED
    BY <1>1, <1>2, <1>3

(* A step that leaves the page's comments, and goes on with a run elsewhere.*)
LEMMA ReplyElsewhere ==
  ASSUME ReplyInv,
         \/ run' = Idle
         \/ /\ run # Idle /\ run'.kind = run.kind /\ run'.raced = run.raced /\ run'.at # "remove"
            /\ cmd' = cmd
            /\ run'.at \in {"clear", "dismiss", "delete"} => run.kind = "review"
  PROVE  ReplyInv'
  <1>1. CASE run' = Idle
    BY <1>1 DEF ReplyInv, Idle
  <1>2. CASE run' # Idle
    BY <1>2 DEF ReplyInv
  <1> QED
    BY <1>1, <1>2

\* At the start nothing is planned,
LEMMA ReplyHoldsFirst ==
  ASSUME Init
  PROVE  ReplyInv
  BY DEF Init, Unreviewed, ReplyInv, Idle

\* What RepliesSurvive says of a step.
Survive ==
  run # Idle /\ run.kind = "webhook" /\ ~run.raced =>
    \A c \in page.inline : c \notin page'.inline =>
      c.fp \in run.resolved \/ \E d \in page'.inline : d.fp = c.fp /\ d.id < c.id

\* and every step keeps the plan sparing, and spares.
LEMMA ReplyStays ==
  ASSUME PostingAssumption, Shape, ReplyInv, [Next]_vars
  PROVE  ReplyInv' /\ Survive
  <1>0. PageOK(page) /\ head \in Heads /\ host \in Hosts
    BY DEF Shape
  <1>1. CASE UNCHANGED vars
    BY <1>1 DEF vars, ReplyInv, Survive, Spares
  <1>2. ASSUME NEW to \in SUBSET Findings, Push(to) PROVE ReplyInv' /\ Survive
    BY <1>2 DEF Push, ReplyInv, Survive, Spares
  <1>3. ASSUME NEW kind \in Kinds, NEW refused, Start(kind, refused) PROVE ReplyInv' /\ Survive
    <2>1. /\ run = Idle /\ cmd' = cmd /\ run'.at \in {"summary", "review"} /\ (run'.raced = (cmd # Idle))
      BY <1>3 DEF Start
    <2> QED
      BY <2>1 DEF ReplyInv, Survive
  <1>4. ASSUME NEW refused, RunSummaryOnly(refused) PROVE ReplyInv' /\ Survive
    <2>1. page'.inline = page.inline
      BY <1>0, <1>4, Running, RowClosed DEF RunSummaryOnly
    <2> QED
      BY <1>4, <2>1, ReplyElsewhere DEF RunSummaryOnly, Survive
  <1>5. ASSUME NEW found \in SUBSET Findings, NEW refused, Fold(found, refused) PROVE ReplyInv' /\ Survive
    <2>1. /\ run # Idle /\ run'.kind = run.kind /\ run'.raced = run.raced /\ run'.at # "remove"
          /\ run'.at \in {"clear", "dismiss", "delete"} => run.kind = "review"
      BY <1>5, Running DEF Fold, RunFields
    <2> QED
      BY <1>5, <2>1, ReplyElsewhere DEF Fold, Survive
  <1>6. ASSUME NEW refused, Reconcile(refused) PROVE ReplyInv' /\ Survive
    <2> DEFINE existing == GitHub!ListOwnInlineComments(page, refused)
    <2> DEFINE plan == ReconcileInlineComments(existing, run.found, run.resolved)
    <2>1. existing \subseteq page.inline
      BY DEF GitHub!ListOwnInlineComments, GitHub!Oldest
    <2>2. run' = [run EXCEPT !.at = "remove", !.post = plan.post, !.remove = plan.remove] /\ page' = page /\ cmd' = cmd
      BY <1>6 DEF Reconcile
    <2> HIDE DEF existing
    <2>3. Spares(page, plan.remove, run.resolved)
      BY <1>0, <2>1, ReconcileSpares
    <2> HIDE DEF plan
    <2>4. /\ run # Idle /\ run'.at = "remove" /\ run'.remove = plan.remove /\ run'.resolved = run.resolved
          /\ run'.raced = run.raced
      BY <1>6, <2>2, Running DEF Reconcile, RunFields
    <2>5. Spares(page', run'.remove, run'.resolved) /\ run'.remove \subseteq Nat
      BY <2>2, <2>3, <2>4 DEF Spares
    <2> QED
      BY <2>2, <2>4, <2>5 DEF ReplyInv, Survive
  <1>7. ASSUME NEW refused, Remove(refused) PROVE ReplyInv' /\ Survive
    <2>1. DOMAIN run = RunFields /\ run # Idle /\ run.at = "remove" /\ cmd' = cmd
      BY <1>7, Running DEF Remove
    <2>2. CASE run.remove = {}
      <3>1. run'.at = "post" /\ run'.kind = run.kind /\ run'.raced = run.raced /\ page' = page
        BY <1>7, <2>1, <2>2 DEF Remove, RunGoesTo, RunFields
      <3> QED
        BY <2>1, <3>1, ReplyElsewhere DEF Survive
    <2>3. CASE run.remove # {}
      <3> DEFINE id == First(run.remove)
      <3>1. page' = DeleteComment(id, refused).page /\ run' = [run EXCEPT !.remove = @ \ {id}]
        BY <1>7, <2>3 DEF Remove
      <3>2. id \in run.remove
        BY <2>1, <2>3, FirstIsOne DEF ReplyInv
      <3> HIDE DEF id
      <3>3. page'.inline = page.inline \/ page'.inline = {c \in page.inline : c.id # id}
        BY <1>0, <3>1, CommentDeleted
      <3>4. /\ run'.at = "remove" /\ run'.remove = run.remove \ {id} /\ run'.resolved = run.resolved
            /\ run'.raced = run.raced /\ run'.kind = run.kind
        BY <2>1, <3>1 DEF RunFields
      <3>5. CASE run.raced
        BY <2>1, <3>4, <3>5 DEF ReplyInv, Survive
      <3>6. CASE ~run.raced
        <4>1. Spares(page, run.remove, run.resolved)
          BY <2>1, <3>6 DEF ReplyInv
        <4>2. Spares(page', run.remove \ {id}, run.resolved) /\ Survive
          BY <3>2, <3>3, <4>1, SparesOn DEF Survive
        <4>3. Spares(page', run'.remove, run'.resolved)
          BY <3>4, <4>2
        <4> QED
          BY <2>1, <3>4, <4>2, <4>3 DEF ReplyInv, Spares
      <3> QED
        BY <3>5, <3>6, Running, <2>1
    <2> QED
      BY <2>2, <2>3
  <1>8. ASSUME NEW refused, ClearPrevious(refused) PROVE ReplyInv' /\ Survive
    <2>1. run # Idle /\ run'.kind = run.kind /\ run'.raced = run.raced /\ run'.at \in {"dismiss", "post"}
      BY <1>8, Running DEF ClearPrevious, RunFields
    <2>2. run.kind = "review" /\ cmd' = cmd /\ page' = page
      BY <1>8 DEF ReplyInv, ClearPrevious
    <2> QED
      BY <2>1, <2>2, ReplyElsewhere DEF Survive
  <1>9. ASSUME NEW refused, ClearDismiss(refused) PROVE ReplyInv' /\ Survive
    <2>1. run # Idle /\ run'.kind = run.kind /\ run'.raced = run.raced /\ run'.at \in {"dismiss", "delete", "post"}
      BY <1>9, Running DEF ClearDismiss, RunFields
    <2>2. run.kind = "review" /\ cmd' = cmd
      BY <1>9 DEF ReplyInv, ClearDismiss
    <2> QED
      BY <2>1, <2>2, ReplyElsewhere DEF Survive
  <1>10. ASSUME NEW refused, ClearDelete(refused) PROVE ReplyInv' /\ Survive
    <2>1. run # Idle /\ run'.kind = run.kind /\ run'.raced = run.raced /\ run'.at \in {"delete", "post"}
      BY <1>10, Running DEF ClearDelete, RunGoesTo, RunFields
    <2>2. run.kind = "review" /\ cmd' = cmd
      BY <1>10 DEF ReplyInv, ClearDelete
    <2> QED
      BY <2>1, <2>2, ReplyElsewhere DEF Survive
  <1>11. ASSUME NEW refused, Post(refused) PROVE ReplyInv' /\ Survive
    <2> DEFINE event == IF RequestChanges THEN "REQUEST_CHANGES" ELSE "COMMENT"
    <2>1. PICK a : a = PostReview([event |-> event, comments |-> run.post], refused)
      OBVIOUS
    <2>2. page' = a.page /\ cmd' = cmd
      BY <1>11, <2>1 DEF Post
    <2> HIDE DEF event
    <2>3. run # Idle /\ run.post \in SUBSET Findings
      BY <1>11, Running DEF Post
    <2>4. page.inline \subseteq page'.inline
      <3>1. CASE a.page = page
        BY <2>2, <3>1
      <3>2. CASE a.page # page
        <4>1. \E taken \in SUBSET run.post : Added(page, a.page, taken)
          BY <1>0, <2>1, <2>3, <3>2, PostAdds
        <4> QED
          BY <2>2, <4>1 DEF Added
      <3> QED
        BY <3>1, <3>2
    <2>5. run'.kind = run.kind /\ run'.raced = run.raced /\ run'.at \in {"finish", "fail"}
      BY <1>11, Running DEF Post, RunGoesTo, RunFields
    <2> QED
      BY <2>2, <2>3, <2>4, <2>5, ReplyElsewhere DEF Survive
  <1>12. ASSUME NEW refused, Fail(refused) PROVE ReplyInv' /\ Survive
    <2>1. page'.inline = page.inline
      BY <1>0, <1>12, Running, RowClosed DEF Fail
    <2> QED
      BY <1>12, <2>1, ReplyElsewhere DEF Fail, Survive
  <1>13. ASSUME NEW refused, FinishRow(refused) PROVE ReplyInv' /\ Survive
    <2>1. page'.inline = page.inline
      BY <1>0, <1>13, Running, RowClosed DEF FinishRow
    <2>2. run # Idle /\ run'.kind = run.kind /\ run'.raced = run.raced /\ run'.at = "save"
      BY <1>13, Running DEF FinishRow, RunGoesTo, RunFields
    <2> QED
      BY <1>13, <2>1, <2>2, ReplyElsewhere DEF FinishRow, Survive
  <1>14. ASSUME NEW refused, SaveLedger(refused) PROVE ReplyInv' /\ Survive
    BY <1>14, ReplyElsewhere DEF SaveLedger, Survive
  <1>15. ASSUME NEW refused, ResolveList(refused) PROVE ReplyInv' /\ Survive
    <2>1. CASE run = Idle
      BY <1>15, <2>1 DEF ResolveList, ReplyInv, Survive, Idle
    <2>2. CASE run # Idle
      <3>1. DOMAIN run = RunFields
        BY <2>2 DEF Shape, RunOK
      <3>2. run'.raced = TRUE /\ run'.at = run.at /\ run'.kind = run.kind /\ run'.remove = run.remove /\ page' = page
        BY <1>15, <2>2, <3>1 DEF ResolveList, RunFields
      <3> QED
        BY <3>2 DEF ReplyInv, Survive
    <2> QED
      BY <2>1, <2>2
  <1>16. ASSUME NEW refused, ResolveDismiss(refused) PROVE ReplyInv' /\ Survive
    <2>1. run' = run /\ page'.inline = page.inline /\ cmd # Idle
      BY <1>0, <1>16, ReviewDismissed DEF ResolveDismiss, NotesSaid, Idle
    <2> QED
      BY <2>1 DEF ReplyInv, Survive, Spares
  <1>17. ASSUME NEW refused, ResolveDelete(refused) PROVE ReplyInv' /\ Survive
    <2>1. run' = run /\ cmd # Idle
      BY <1>17 DEF ResolveDelete, Idle
    <2>2. run # Idle => run.raced /\ run'.raced
      BY <2>1 DEF ReplyInv
    <2>3. run = Idle => run.at # "remove"
      BY DEF Idle
    <2> QED
      BY <2>1, <2>2, <2>3 DEF ReplyInv, Survive
  <1>18. ASSUME NEW refused, ResolveLedger(refused) PROVE ReplyInv' /\ Survive
    <2>1. run' = run /\ page' = page /\ cmd' = Idle
      BY <1>18 DEF ResolveLedger
    <2> QED
      BY <2>1 DEF ReplyInv, Survive, Spares
  <1> QED
    BY <1>1, <1>2, <1>3, <1>4, <1>5, <1>6, <1>7, <1>8, <1>9, <1>10, <1>11, <1>12, <1>13, <1>14, <1>15, <1>16, <1>17,
       <1>18 DEF Next

\* Hence plans spare in every reachable state.
LEMMA RepliesInv ==
  ASSUME PostingAssumption
  PROVE  Spec => []ReplyInv
  BY ShapeAlways, ReplyHoldsFirst, ReplyStays, PTL DEF Spec

(* A review of a push, beside which no resolve runs, deletes no thread of a *)
(* finding that is still there: what it deletes was fixed or has an older   *)
(* copy that stays.                                                         *)
THEOREM ThreadsSurvive ==
  ASSUME PostingAssumption
  PROVE  Spec => RepliesSurvive
  <1>1. Survive => (run # Idle /\ run.kind = "webhook" /\ ~run.raced =>
                      \A c \in page.inline : c \notin page'.inline =>
                        c.fp \in run.resolved \/ \E d \in page'.inline : d.fp = c.fp /\ d.id < c.id)
    BY DEF Survive
  <1> QED
    BY <1>1, ShapeAlways, RepliesInv, ReplyStays, PTL DEF Spec, RepliesSurvive

-----------------------------------------------------------------------------
(***************************************************************************)
(* One comment for each finding.                                           *)
(***************************************************************************)

(* What is fewer than a page is listed whole.                               *)
LEMMA AllListed ==
  ASSUME NEW set, NEW n \in Nat, IsFiniteSet(set), Cardinality(set) <= n, \A c \in set : c.id \in Nat
  PROVE  GitHub!Oldest(set, n) = set
  <1>1. ASSUME NEW c \in set PROVE GitHub!Cardinality({d \in set : d.id < c.id}) < n
    <2> DEFINE lower == {d \in set : d.id < c.id}
    <2>1. lower \subseteq set \ {c}
      <3>1. ~(c.id < c.id)
        OBVIOUS
      <3> QED
        BY <3>1
    <2>2. IsFiniteSet(set \ {c}) /\ Cardinality(set \ {c}) = Cardinality(set) - 1 /\ Cardinality(set) \in Nat
      BY FS_RemoveElement, FS_CardinalityType
    <2> HIDE DEF lower
    <2>3. Cardinality(lower) \in Nat /\ Cardinality(lower) <= Cardinality(set \ {c})
      BY <2>1, <2>2, FS_Subset, FS_CardinalityType
    <2>4. Cardinality(lower) < n
      BY <2>2, <2>3
    <2>5. GitHub!Cardinality(lower) = Cardinality(lower)
      BY DEF GitHub!Cardinality, Cardinality
    <2> QED
      BY <2>4, <2>5 DEF lower
  <1> QED
    BY <1>1 DEF GitHub!Oldest

(* A finding's comment is found by its name.                                *)
Single(p) == \A c, d \in p.inline : c.fp = d.fp => c = d

\* Where every finding has one comment, comments are no more than findings.
LEMMA InlineFits ==
  ASSUME PostingAssumption, NEW p, PageOK(p), Single(p)
  PROVE  Cardinality(p.inline) <= Cardinality(Findings) /\ Cardinality(p.inline) \in Nat /\ Cardinality(Findings) \in Nat
  <1> DEFINE f == [c \in p.inline |-> c.fp]
  <1>1. f \in Injection(p.inline, Findings)
    <2>1. f \in [p.inline -> Findings]
      BY DEF PageOK
    <2>2. \A c, d \in p.inline : f[c] = f[d] => c = d
      BY DEF Single
    <2> HIDE DEF f
    <2> QED
      BY <2>1, <2>2 DEF Injection, IsInjective
  <1> HIDE DEF f
  <1> QED
    BY <1>1, FS_Injection, FS_CardinalityType DEF PostingAssumption, PageOK

(* On page q there is no comment more than on p, and its notes are those of *)
(* p, whatever they now say.                                                *)
Thinner(p, q) ==
  /\ q.inline \subseteq p.inline
  /\ q.notes = p.notes \/ \E say : q.notes = {say[n] : n \in p.notes}
                                /\ \A n \in p.notes : say[n].id = n.id /\ say[n].kind = n.kind

\* A page on which nothing is added is a thinner one.
LEMMA SaidIsThinner ==
  ASSUME NEW p, NEW q, NotesSaid(p, q)
  PROVE  Thinner(p, q)
  BY Zenon DEF NotesSaid, Thinner

Reviews(p) == {n \in p.notes : n.kind = "review"}

\* Every comment came with a review that is there.
NotesKnown(p) ==
  /\ \A n \in Reviews(p) : n.id \in Nat
  /\ \A c \in p.inline : \E n \in Reviews(p) : n.id = c.note

\* A thinner page has no more reviews, and a review for every comment.
LEMMA ThinnerCounts ==
  ASSUME NEW p, NEW q, PageOK(p), PageOK(q), Thinner(p, q)
  PROVE  /\ Cardinality(Reviews(p)) \in Nat /\ Cardinality(Reviews(q)) \in Nat
         /\ Cardinality(Reviews(q)) <= Cardinality(Reviews(p))
         /\ NotesKnown(p) => NotesKnown(q)
  <1>1. IsFiniteSet(Reviews(p)) /\ IsFiniteSet(Reviews(q))
    BY FS_Subset DEF PageOK, Reviews
  <1>2. Cardinality(Reviews(p)) \in Nat /\ Cardinality(Reviews(q)) \in Nat
    BY <1>1, FS_CardinalityType
  <1>3. CASE q.notes = p.notes
    <2>1. Reviews(q) = Reviews(p)
      BY <1>3 DEF Reviews
    <2> QED
      BY <1>2, <2>1 DEF Thinner, NotesKnown
  <1>4. CASE q.notes # p.notes
    <2>1. PICK say : q.notes = {say[n] : n \in p.notes} /\ \A n \in p.notes : say[n].id = n.id /\ say[n].kind = n.kind
      BY <1>4 DEF Thinner
    <2> DEFINE f == [n \in Reviews(p) |-> say[n]]
    <2>2. f \in Surjection(Reviews(p), Reviews(q))
      <3>1. \A n \in Reviews(p) : say[n] \in Reviews(q)
        BY <2>1 DEF Reviews
      <3>2. \A m \in Reviews(q) : \E n \in Reviews(p) : say[n] = m
        BY <2>1 DEF Reviews
      <3> QED
        BY <3>1, <3>2 DEF Surjection
    <2>3. \A n \in Reviews(p) : say[n] \in Reviews(q) /\ say[n].id = n.id
      BY <2>1 DEF Reviews
    <2> HIDE DEF f
    <2>4. Cardinality(Reviews(q)) <= Cardinality(Reviews(p))
      BY <1>1, <2>2, FS_Surjection
    <2>5. \A m \in Reviews(q) : \E n \in Reviews(p) : m.id = n.id
      BY <2>1 DEF Reviews
    <2>6. NotesKnown(p) => NotesKnown(q)
      BY <2>3, <2>5 DEF NotesKnown, Thinner
    <2> QED
      BY <1>2, <2>4, <2>6
  <1> QED
    BY <1>3, <1>4

\* The run may still put its review on the page.
Unposted(r) == r.at \in RunSteps \ {"finish", "fail", "save"}

(* No more reviews are on the page than runs were started.                  *)
CountInv ==
  /\ DOMAIN counts = {"runs", "resolves"} /\ counts.runs \in Nat /\ counts.runs <= MaxRuns
  /\ Cardinality(Reviews(page)) + (IF Unposted(run) THEN 1 ELSE 0) <= counts.runs
  /\ NotesKnown(page)

\* Reviews on the page are still no more than runs that posted.
LEMMA CountOn ==
  ASSUME CountInv, PageOK(page), PageOK(page'), Thinner(page, page'),
         DOMAIN counts' = {"runs", "resolves"}, counts'.runs = counts.runs, Unposted(run') => Unposted(run)
  PROVE  CountInv'
  <1>1. /\ Cardinality(Reviews(page)) \in Nat /\ Cardinality(Reviews(page')) \in Nat
        /\ Cardinality(Reviews(page')) <= Cardinality(Reviews(page)) /\ NotesKnown(page')
    BY ThinnerCounts DEF CountInv
  <1>2. Cardinality(Reviews(page')) + (IF Unposted(run') THEN 1 ELSE 0) <= counts.runs
    <2>1. CASE Unposted(run')
      BY <1>1, <2>1 DEF CountInv
    <2>2. CASE ~Unposted(run')
      BY <1>1, <2>2 DEF CountInv
    <2> QED
      BY <2>1, <2>2
  <1> QED
    BY <1>1, <1>2 DEF CountInv

\* No review is on the page at the start,
LEMMA CountHoldsFirst ==
  ASSUME PostingAssumption, Init
  PROVE  CountInv
  <1>1. page.notes = {} /\ page.inline = {} /\ run.at = "idle" /\ counts = [runs |-> 0, resolves |-> 0]
    BY EmptyPageOK DEF Init, Unreviewed, Idle
  <1>2. Reviews(page) = {}
    BY <1>1 DEF Reviews
  <1>3. ~Unposted(run)
    BY <1>1 DEF Unposted, RunSteps
  <1> QED
    BY <1>1, <1>2, <1>3, FS_EmptySet DEF CountInv, NotesKnown, PostingAssumption

\* and every step keeps their number within the runs that posted.
LEMMA CountStays ==
  ASSUME PostingAssumption, Shape, Shape', CountInv, [Next]_vars
  PROVE  CountInv'
  <1>0. PageOK(page) /\ PageOK(page') /\ head \in Heads /\ host \in Hosts /\ DOMAIN counts = {"runs", "resolves"}
    BY DEF Shape, CountInv
  <1>same. Thinner(page, page)
    BY DEF Thinner
  <1>1. CASE UNCHANGED vars
    BY <1>1 DEF vars, CountInv, NotesKnown, Reviews
  <1>2. ASSUME NEW to \in SUBSET Findings, Push(to) PROVE CountInv'
    BY <1>0, <1>2, <1>same, CountOn DEF Push
  <1>3. ASSUME NEW kind \in Kinds, NEW refused, Start(kind, refused) PROVE CountInv'
    <2>1. PICK row : row = CreateRow(head, refused)
      OBVIOUS
    <2>2. page' = page \/ page' = WithRow(page, head, "running")
      BY <1>3, <2>1, CreateRowOpens DEF Start
    <2>3. page'.inline = page.inline /\ page'.notes = page.notes
      BY <1>0, <2>2, RowSet DEF GitHub!RowStates
    <2>4. ~Unposted(run) /\ counts.runs < MaxRuns
      BY <1>3 DEF Start, Unposted, RunSteps, Idle
    <2>5. DOMAIN counts' = {"runs", "resolves"} /\ counts'.runs = counts.runs + 1
      BY <1>0, <1>3 DEF Start
    <2>6. Cardinality(Reviews(page)) \in Nat /\ Cardinality(Reviews(page)) <= counts.runs
      BY <1>0, <1>same, <2>4, ThinnerCounts DEF CountInv
    <2>7. Reviews(page') = Reviews(page)
      BY <2>3 DEF Reviews
    <2>8. NotesKnown(page')
      BY <2>3, <2>7 DEF CountInv, NotesKnown
    <2>9. CASE Unposted(run')
      BY <2>4, <2>5, <2>6, <2>7, <2>8, <2>9 DEF CountInv, PostingAssumption
    <2>10. CASE ~Unposted(run')
      BY <2>4, <2>5, <2>6, <2>7, <2>8, <2>10 DEF CountInv, PostingAssumption
    <2> QED
      BY <2>9, <2>10
  <1>4. ASSUME NEW refused, RunSummaryOnly(refused) PROVE CountInv'
    <2>1. Thinner(page, page')
      BY <1>0, <1>4, Running, RowClosed DEF RunSummaryOnly, Thinner
    <2> QED
      BY <1>0, <1>4, <2>1, CountOn DEF RunSummaryOnly, Unposted, RunSteps, Idle
  <1>5. ASSUME NEW found \in SUBSET Findings, NEW refused, Fold(found, refused) PROVE CountInv'
    <2>1. Unposted(run)
      BY <1>5 DEF Fold, Unposted, RunSteps
    <2> QED
      BY <1>0, <1>5, <1>same, <2>1, CountOn DEF Fold
  <1>6. ASSUME NEW refused, Reconcile(refused) PROVE CountInv'
    <2>1. Unposted(run)
      BY <1>6 DEF Reconcile, Unposted, RunSteps
    <2> QED
      BY <1>0, <1>6, <1>same, <2>1, CountOn DEF Reconcile
  <1>7. ASSUME NEW refused, Remove(refused) PROVE CountInv'
    <2>1. Unposted(run)
      BY <1>7 DEF Remove, Unposted, RunSteps
    <2>2. Thinner(page, page')
      BY <1>0, <1>7, CommentDeleted DEF Remove, Thinner
    <2> QED
      BY <1>0, <1>7, <2>1, <2>2, CountOn DEF Remove
  <1>8. ASSUME NEW refused, ClearPrevious(refused) PROVE CountInv'
    <2>1. Unposted(run)
      BY <1>8 DEF ClearPrevious, Unposted, RunSteps
    <2> QED
      BY <1>0, <1>8, <1>same, <2>1, CountOn DEF ClearPrevious
  <1>9. ASSUME NEW refused, ClearDismiss(refused) PROVE CountInv'
    <2>1. Unposted(run)
      BY <1>9 DEF ClearDismiss, Unposted, RunSteps
    <2>2. Thinner(page, page')
      BY <1>0, <1>9, ReviewDismissed, <1>same, SaidIsThinner DEF ClearDismiss
    <2> QED
      BY <1>0, <1>9, <2>1, <2>2, CountOn DEF ClearDismiss
  <1>10. ASSUME NEW refused, ClearDelete(refused) PROVE CountInv'
    <2>1. Unposted(run)
      BY <1>10 DEF ClearDelete, Unposted, RunSteps
    <2>2. Thinner(page, page')
      BY <1>0, <1>10, CommentDeleted DEF ClearDelete, Thinner
    <2> QED
      BY <1>0, <1>10, <2>1, <2>2, CountOn DEF ClearDelete
  <1>11. ASSUME NEW refused, Post(refused) PROVE CountInv'
    <2> DEFINE event == IF RequestChanges THEN "REQUEST_CHANGES" ELSE "COMMENT"
    <2>1. PICK a : a = PostReview([event |-> event, comments |-> run.post], refused)
      OBVIOUS
    <2>2. page' = a.page /\ counts' = counts /\ RunGoesTo(IF a.ok /\ "answer" \notin refused THEN "finish" ELSE "fail")
      BY <1>11, <2>1 DEF Post
    <2> HIDE DEF event
    <2>3. run.post \in SUBSET Findings /\ DOMAIN run = RunFields
      BY <1>11, Running DEF Post
    <2>4. Unposted(run) /\ ~Unposted(run')
      <3>1. run'.at \in {"finish", "fail"}
        BY <2>2, <2>3 DEF RunGoesTo, RunFields
      <3> QED
        BY <1>11, <3>1 DEF Post, Unposted, RunSteps
    <2>5. page' = page \/ \E taken : Added(page, page', taken)
      BY <1>0, <2>1, <2>2, <2>3, PostAdds
    <2>6. CASE page' = page
      BY <1>0, <1>same, <2>2, <2>4, <2>6, CountOn
    <2>7. CASE \E taken : Added(page, page', taken)
      <3>1. PICK n, new : /\ page'.notes = page.notes \cup {n} /\ n.id = page.next /\ n.kind = "review"
                          /\ page'.inline = page.inline \cup new
                          /\ \A c \in new : c.note = page.next
        BY <2>7 DEF Added
      <3>2. Reviews(page') = Reviews(page) \cup {n}
        BY <3>1 DEF Reviews
      <3>3. IsFiniteSet(Reviews(page))
        BY <1>0, FS_Subset DEF PageOK, Reviews
      <3>4. /\ Cardinality(Reviews(page)) \in Nat /\ Cardinality(Reviews(page')) \in Nat
            /\ Cardinality(Reviews(page')) <= Cardinality(Reviews(page)) + 1
        <4> DEFINE old == Reviews(page)
        <4>1. IsFiniteSet(old) /\ Reviews(page') = old \cup {n}
          BY <3>2, <3>3
        <4> HIDE DEF old
        <4>2. /\ Cardinality(old) \in Nat /\ Cardinality(old \cup {n}) \in Nat
              /\ Cardinality(old \cup {n}) <= Cardinality(old) + 1
          <5>1. Cardinality(old) \in Nat
            BY <4>1, FS_CardinalityType
          <5>2. Cardinality(old \cup {n}) = Cardinality(old) \/ Cardinality(old \cup {n}) = Cardinality(old) + 1
            BY <4>1, FS_AddElement, Zenon
          <5> QED
            BY <5>1, <5>2
        <4> QED
          BY <4>1, <4>2 DEF old
      <3>5. NotesKnown(page')
        BY <1>0, <3>1, <3>2 DEF NotesKnown, CountInv, PageOK
      <3>6. Cardinality(Reviews(page)) + 1 <= counts.runs
        BY <2>4 DEF CountInv
      <3>7. Cardinality(Reviews(page')) <= counts.runs
        BY <3>4, <3>6 DEF CountInv
      <3> QED
        BY <2>2, <2>4, <3>4, <3>5, <3>7 DEF CountInv
    <2> QED
      BY <2>5, <2>6, <2>7
  <1>12. ASSUME NEW refused, Fail(refused) PROVE CountInv'
    <2>1. Thinner(page, page')
      BY <1>0, <1>12, Running, RowClosed DEF Fail, Thinner
    <2> QED
      BY <1>0, <1>12, <2>1, CountOn DEF Fail, Unposted, RunSteps, Idle
  <1>13. ASSUME NEW refused, FinishRow(refused) PROVE CountInv'
    <2>1. Thinner(page, page')
      BY <1>0, <1>13, Running, RowClosed DEF FinishRow, Thinner
    <2>2. ~Unposted(run')
      BY <1>13, Running DEF FinishRow, RunGoesTo, RunFields, Unposted
    <2> QED
      BY <1>0, <1>13, <2>1, <2>2, CountOn DEF FinishRow
  <1>14. ASSUME NEW refused, SaveLedger(refused) PROVE CountInv'
    BY <1>0, <1>14, <1>same, CountOn DEF SaveLedger, Unposted, RunSteps, Idle
  <1>15. ASSUME NEW refused, ResolveList(refused) PROVE CountInv'
    <2>1. run'.at = run.at
      <3>1. CASE run = Idle
        BY <1>15, <3>1 DEF ResolveList
      <3>2. CASE run # Idle
        <4>1. DOMAIN run = RunFields
          BY <3>2 DEF Shape, RunOK
        <4> QED
          BY <1>15, <3>2, <4>1 DEF ResolveList, RunFields
      <3> QED
        BY <3>1, <3>2
    <2>2. DOMAIN counts' = {"runs", "resolves"} /\ counts'.runs = counts.runs
      BY <1>0, <1>15 DEF ResolveList
    <2> QED
      BY <1>0, <1>15, <1>same, <2>1, <2>2, CountOn DEF ResolveList, Unposted
  <1>16. ASSUME NEW refused, ResolveDismiss(refused) PROVE CountInv'
    <2>1. Thinner(page, page')
      BY <1>0, <1>16, ReviewDismissed, <1>same, SaidIsThinner DEF ResolveDismiss
    <2> QED
      BY <1>0, <1>16, <2>1, CountOn DEF ResolveDismiss
  <1>17. ASSUME NEW refused, ResolveDelete(refused) PROVE CountInv'
    <2>1. Thinner(page, page')
      BY <1>0, <1>17, CommentDeleted DEF ResolveDelete, Thinner
    <2> QED
      BY <1>0, <1>17, <2>1, CountOn DEF ResolveDelete
  <1>18. ASSUME NEW refused, ResolveLedger(refused) PROVE CountInv'
    BY <1>0, <1>18, <1>same, CountOn DEF ResolveLedger
  <1> QED
    BY <1>1, <1>2, <1>3, <1>4, <1>5, <1>6, <1>7, <1>8, <1>9, <1>10, <1>11, <1>12, <1>13, <1>14, <1>15, <1>16, <1>17,
       <1>18 DEF Next

(* The findings of the pull request, and the reviews it gets, are no more   *)
(* than the host lists in one page.                                         *)
FitsAPage == Cardinality(Findings) <= PageSize /\ MaxRuns <= PageSize

\* On GitHub, the page was listed and cleared whenever that was tried.
Clean == host = "github" /\ failed \cap {"list", "page", "delete", "dismiss"} = {}

(* What is to be posted is not on the page when it comes to it: a push      *)
(* looked for it, and a review somebody asked for cleared the page.         *)
SingleInv ==
  /\ run.at = "review" => run.kind \in {"webhook", "review"}
  /\ Clean =>
       /\ Single(page)
       /\ run.at \in {"remove", "post"} => \A c \in page.inline : c.fp \notin run.post
       /\ run.at = "dismiss" => \A c \in page.inline : c.note \in run.seen
       /\ run.at = "delete" => \A c \in page.inline : c.id \in run.remove

(* What is not to be posted is there, and stays.                            *)
KeepInv ==
  /\ run.at \in {"reconcile", "clear", "dismiss", "delete"} => run.post = run.found
  /\ run.at = "remove" /\ ~run.raced =>
       \A f \in run.found \ run.post : \E c \in page.inline : c.fp = f /\ c.id \notin run.remove
  /\ run.at = "post" /\ ~run.raced => \A f \in run.found \ run.post : \E c \in page.inline : c.fp = f
  /\ run.at = "finish" /\ ~run.raced /\ "refs" \notin failed =>
       \A f \in run.found : f \in failed \/ \E c \in page.inline : c.fp = f

OneInv == SingleInv /\ KeepInv

\* What nothing has failed on, nothing had failed on before.
LEMMA CleanBefore ==
  ASSUME host' = host, failed \subseteq failed'
  PROVE  Clean' => Clean
  BY DEF Clean

(* A step that posts nothing and leaves the run where none of it applies.   *)
LEMMA OneElsewhere ==
  ASSUME OneInv, host' = host, failed \subseteq failed', page'.inline \subseteq page.inline,
         run'.at \in {"idle", "summary", "review", "save", "fail"},
         run'.at = "review" => run'.kind \in {"webhook", "review"}
  PROVE  OneInv'
  BY CleanBefore DEF OneInv, SingleInv, KeepInv, Single

(* A step of a resolve.                                                     *)
LEMMA OneBeside ==
  ASSUME OneInv, host' = host, failed \subseteq failed', page'.inline \subseteq page.inline,
         \/ run' = run
         \/ /\ run'.at = run.at /\ run'.kind = run.kind /\ run'.post = run.post /\ run'.seen = run.seen
            /\ run'.remove = run.remove /\ run'.found = run.found /\ run'.raced,
         page'.inline = page.inline \/ run'.at = "idle" \/ run'.raced
  PROVE  OneInv'
  <1>1. SingleInv'
    <2>1. CASE run' = run
      BY <2>1, CleanBefore DEF OneInv, SingleInv, Single
    <2>2. CASE run' # run
      BY <2>2, CleanBefore DEF OneInv, SingleInv, Single
    <2> QED
      BY <2>1, <2>2
  <1>2. KeepInv'
    <2>1. CASE run' = run
      BY <2>1 DEF OneInv, KeepInv
    <2>2. CASE run' # run
      BY <2>2 DEF OneInv, KeepInv
    <2> QED
      BY <2>1, <2>2
  <1> QED
    BY <1>1, <1>2 DEF OneInv

\* At the start no finding has a comment,
LEMMA OneHoldsFirst ==
  ASSUME PostingAssumption, Init
  PROVE  OneInv
  <1>1. page.inline = {} /\ run.at = "idle"
    BY EmptyPageOK DEF Init, Unreviewed, Idle
  <1> QED
    BY <1>1 DEF OneInv, SingleInv, KeepInv, Single

(* The comment kept on a finding is not one of those to delete.             *)
LEMMA KeptStays ==
  ASSUME PageOK(page), NEW existing, existing \subseteq page.inline, NEW incoming, NEW resolved,
         NEW plan, plan = ReconcileInlineComments(existing, incoming, resolved),
         NEW f \in incoming, f \notin plan.post
  PROVE  \E c \in existing : c.fp = f /\ c.id \notin plan.remove
  <1> DEFINE again == {d \in existing : d.fp \in incoming /\ d # KeptComment(existing, d.fp)}
  <1> DEFINE fixed == {d \in existing : d.fp \in resolved \ incoming}
  <1>1. plan.remove = {c.id : c \in again} \cup {c.id : c \in fixed} /\ plan.post = incoming \ {c.fp : c \in existing}
    BY DEF ReconcileInlineComments
  <1>2. /\ \A c \in existing : c.id \in Nat
        /\ \A c, d \in existing : c.id = d.id => c = d
    BY DEF PageOK
  <1>3. PICK e \in existing : e.fp = f
    BY <1>1
  <1> DEFINE k == KeptComment(existing, e.fp)
  <1>4. k \in existing /\ k.fp = f
    BY <1>2, <1>3, KeptIsOldest
  <1>5. k \notin again /\ k \notin fixed
    BY <1>3, <1>4
  <1>6. k.id \notin plan.remove
    BY <1>1, <1>2, <1>4, <1>5
  <1> QED
    BY <1>4, <1>6

(* What the calls list, when nothing that lists or clears has failed.       *)
LEMMA WholeLists ==
  ASSUME PostingAssumption, FitsAPage, PageOK(page), CountInv, NEW refused, host = "github", "list" \notin refused
  PROVE  /\ OwnReviews(refused) = Reviews(page)
         /\ Single(page) => \A seen : (\A c \in page.inline : c.note \in seen) =>
              \A c \in page.inline : c.id \in CommentIds(seen, refused)
         /\ Single(page) /\ "page" \notin refused => GitHub!ListOwnInlineComments(page, refused) = page.inline
  <1>1. IsFiniteSet(Reviews(page)) /\ Cardinality(Reviews(page)) <= PageSize /\ \A n \in Reviews(page) : n.id \in Nat
    <2>1. IsFiniteSet(Reviews(page))
      BY FS_Subset DEF PageOK, Reviews
    <2>2. Cardinality(Reviews(page)) \in Nat /\ counts.runs \in Nat /\ counts.runs <= MaxRuns /\ MaxRuns <= PageSize
      BY <2>1, FS_CardinalityType DEF CountInv, FitsAPage
    <2>3. Cardinality(Reviews(page)) <= counts.runs
      <3>1. Cardinality(Reviews(page)) + (IF Unposted(run) THEN 1 ELSE 0) <= counts.runs
        BY DEF CountInv
      <3> QED
        BY <2>2, <3>1
    <2> QED
      BY <2>1, <2>2, <2>3 DEF PostingAssumption, CountInv, NotesKnown
  <1>2. OwnReviews(refused) = Reviews(page)
    <2>1. OwnReviews(refused) = GitHub!Oldest(GitHub!ReviewNotes(page), PageSize)
      BY Zenon DEF OwnReviews, GitHub!ListOwnReviews, GitHub!Listed
    <2>2. GitHub!ReviewNotes(page) = Reviews(page)
      BY DEF GitHub!ReviewNotes, Reviews
    <2> QED
      BY <1>1, <2>1, <2>2, AllListed DEF PostingAssumption
  <1>3. ASSUME Single(page)
        PROVE  /\ IsFiniteSet(page.inline) /\ Cardinality(page.inline) \in Nat /\ Cardinality(page.inline) <= PageSize
               /\ \A c \in page.inline : c.id \in Nat
    BY <1>3, InlineFits DEF PageOK, FitsAPage, PostingAssumption
  <1>4. ASSUME Single(page), NEW seen, \A c \in page.inline : c.note \in seen
        PROVE  \A c \in page.inline : c.id \in CommentIds(seen, refused)
    <2>1. CommentIds(seen, refused) = {c.id : c \in {d \in GitHub!Oldest(page.inline, PageSize) : d.note \in seen}}
      BY Zenon DEF CommentIds, GitHub!ListReviewCommentIds, GitHub!Listed
    <2>2. GitHub!Oldest(page.inline, PageSize) = page.inline
      BY <1>3, <1>4, AllListed DEF PostingAssumption
    <2> QED
      BY <1>4, <2>1, <2>2
  <1>5. ASSUME Single(page), "page" \notin refused
        PROVE  GitHub!ListOwnInlineComments(page, refused) = page.inline
    <2>1. GitHub!ListOwnInlineComments(page, refused) = GitHub!Oldest(page.inline, 10 * PageSize)
      BY <1>5 DEF GitHub!ListOwnInlineComments
    <2>2. 10 * PageSize \in Nat /\ Cardinality(page.inline) <= 10 * PageSize
      BY <1>3, <1>5 DEF PostingAssumption
    <2> QED
      BY <1>3, <1>5, <2>1, <2>2, AllListed
  <1> QED
    BY <1>2, <1>4, <1>5

\* and every step keeps it at one for each.
LEMMA OneStays ==
  ASSUME PostingAssumption, FitsAPage, Shape, Shape', ReplyInv, CountInv, OneInv, [Next]_vars
  PROVE  OneInv'
  <1>0. PageOK(page) /\ PageOK(page') /\ head \in Heads /\ host \in Hosts
    BY DEF Shape
  <1>1. CASE UNCHANGED vars
    BY <1>1 DEF vars, OneInv, SingleInv, KeepInv, Clean, Single
  <1>2. ASSUME NEW to \in SUBSET Findings, Push(to) PROVE OneInv'
    BY <1>2, OneBeside DEF Push
  <1>3. ASSUME NEW kind \in Kinds, NEW refused, Start(kind, refused) PROVE OneInv'
    <2>1. PICK row : row = CreateRow(head, refused)
      OBVIOUS
    <2>2. page' = page \/ page' = WithRow(page, head, "running")
      BY <1>3, <2>1, CreateRowOpens DEF Start
    <2>3. page'.inline = page.inline
      BY <1>0, <2>2, RowSet DEF GitHub!RowStates
    <2>4. /\ run'.at \in {"summary", "review"} /\ (run'.at = "review" => kind # "summary") /\ run'.kind = kind
          /\ host' = host /\ failed' = failed \cup refused
      BY <1>3 DEF Start, Faulted
    <2> QED
      BY <2>3, <2>4, OneElsewhere DEF PostingAssumption
  <1>4. ASSUME NEW refused, RunSummaryOnly(refused) PROVE OneInv'
    <2>1. page'.inline = page.inline
      BY <1>0, <1>4, Running, RowClosed DEF RunSummaryOnly
    <2> QED
      BY <1>4, <2>1, OneElsewhere DEF RunSummaryOnly, Faulted, Idle
  <1>5. ASSUME NEW found \in SUBSET Findings, NEW refused, Fold(found, refused) PROVE OneInv'
    <2>1. /\ run'.post = found /\ run'.found = found /\ page' = page /\ host' = host /\ failed' = failed \cup refused
          /\ run'.at = CASE run.kind = "review" -> "clear"
                         [] run.kind = "webhook" /\ host = "github" -> "reconcile"
                         [] OTHER -> "post"
      BY <1>5, Running DEF Fold, RunFields, Faulted
    <2>2. run.kind \in {"webhook", "review"}
      BY <1>5 DEF Fold, OneInv, SingleInv
    <2>3. run'.at \in {"clear", "reconcile", "post"} /\ (host = "github" => run'.at # "post")
      BY <2>1, <2>2
    <2> QED
      BY <2>1, <2>3, CleanBefore DEF OneInv, SingleInv, KeepInv, Clean, Single
  <1>6. ASSUME NEW refused, Reconcile(refused) PROVE OneInv'
    <2> DEFINE existing == GitHub!ListOwnInlineComments(page, refused)
    <2> DEFINE plan == ReconcileInlineComments(existing, run.found, run.resolved)
    <2>1. existing \subseteq page.inline
      BY DEF GitHub!ListOwnInlineComments, GitHub!Oldest
    <2>2. /\ run' = [run EXCEPT !.at = "remove", !.post = plan.post, !.remove = plan.remove] /\ page' = page
          /\ host' = host /\ failed' = failed \cup refused
      BY <1>6 DEF Reconcile, Faulted
    <2>3. plan.post = run.found \ {c.fp : c \in existing}
      BY DEF ReconcileInlineComments
    <2>4. Clean' => existing = page.inline
      <3> SUFFICES ASSUME Clean' PROVE existing = page.inline
        OBVIOUS
      <3>1. Single(page) /\ host = "github" /\ "list" \notin refused /\ "page" \notin refused
        BY <2>2, CleanBefore DEF OneInv, SingleInv, Clean
      <3> QED
        BY <1>0, <3>1, WholeLists
    <2> HIDE DEF existing
    <2>5. \A f \in run.found \ plan.post : \E c \in existing : c.fp = f /\ c.id \notin plan.remove
      BY <1>0, <2>1, KeptStays
    <2> HIDE DEF plan
    <2>6. run'.at = "remove" /\ run'.post = plan.post /\ run'.remove = plan.remove /\ run'.found = run.found
      BY <1>6, <2>2, Running DEF Reconcile, RunFields
    <2>7. SingleInv'
      BY <2>2, <2>3, <2>4, <2>6, CleanBefore DEF OneInv, SingleInv, Single
    <2>8. KeepInv'
      BY <2>1, <2>2, <2>5, <2>6 DEF KeepInv
    <2> QED
      BY <2>7, <2>8 DEF OneInv
  <1>7. ASSUME NEW refused, Remove(refused) PROVE OneInv'
    <2>1. /\ DOMAIN run = RunFields /\ run.at = "remove" /\ host' = host /\ failed' = failed \cup refused
      BY <1>7, Running DEF Remove, Faulted
    <2>2. CASE run.remove = {}
      <3>1. /\ page' = page /\ run'.at = "post" /\ run'.post = run.post /\ run'.found = run.found /\ run'.raced = run.raced
        BY <1>7, <2>1, <2>2 DEF Remove, RunGoesTo, RunFields
      <3> QED
        BY <2>1, <3>1, CleanBefore DEF OneInv, SingleInv, KeepInv, Single
    <2>3. CASE run.remove # {}
      <3> DEFINE id == First(run.remove)
      <3>1. page' = DeleteComment(id, refused).page /\ run' = [run EXCEPT !.remove = @ \ {id}]
        BY <1>7, <2>3 DEF Remove
      <3>2. id \in run.remove
        BY <2>1, <2>3, FirstIsOne DEF ReplyInv
      <3> HIDE DEF id
      <3>3. page'.inline = page.inline \/ page'.inline = {c \in page.inline : c.id # id}
        BY <1>0, <3>1, CommentDeleted
      <3>4. /\ run'.at = "remove" /\ run'.remove = run.remove \ {id} /\ run'.post = run.post /\ run'.found = run.found
            /\ run'.raced = run.raced
        BY <2>1, <3>1 DEF RunFields
      <3>5. SingleInv'
        BY <2>1, <3>3, <3>4, CleanBefore DEF OneInv, SingleInv, Single
      <3>6. KeepInv'
        BY <2>1, <3>2, <3>3, <3>4 DEF OneInv, KeepInv
      <3> QED
        BY <3>5, <3>6 DEF OneInv
    <2> QED
      BY <2>2, <2>3
  <1>8. ASSUME NEW refused, ClearPrevious(refused) PROVE OneInv'
    <2> DEFINE mine == OwnReviews(refused)
    <2>1. /\ DOMAIN run = RunFields /\ run.at = "clear" /\ host' = host /\ failed' = failed \cup refused /\ page' = page
          /\ run' = IF mine = {} THEN [run EXCEPT !.at = "post"]
                    ELSE [run EXCEPT !.at = "dismiss", !.seen = {n.id : n \in mine},
                                     !.remove = {n.id : n \in {m \in mine : m.state = "CHANGES_REQUESTED"}}]
      BY <1>8, Running DEF ClearPrevious, Faulted
    <2>2. Clean' => mine = Reviews(page)
      <3> SUFFICES ASSUME Clean' PROVE mine = Reviews(page)
        OBVIOUS
      <3>1. host = "github" /\ "list" \notin refused
        BY <2>1 DEF Clean
      <3> QED
        BY <1>0, <3>1, WholeLists
    <2> HIDE DEF mine
    <2>3. \/ mine = {} /\ run'.at = "post"
          \/ run'.at = "dismiss" /\ run'.seen = {n.id : n \in mine}
      BY <2>1 DEF RunFields
    <2>4. run'.post = run.post /\ run'.found = run.found /\ run.post = run.found
      BY <2>1 DEF RunFields, OneInv, KeepInv
    <2>5. \A c \in page.inline : \E n \in Reviews(page) : n.id = c.note
      BY DEF CountInv, NotesKnown
    <2>6. SingleInv'
      BY <2>1, <2>2, <2>3, <2>5, CleanBefore DEF OneInv, SingleInv, Single
    <2>7. KeepInv'
      BY <2>3, <2>4 DEF KeepInv
    <2> QED
      BY <2>6, <2>7 DEF OneInv
  <1>9. ASSUME NEW refused, ClearDismiss(refused) PROVE OneInv'
    <2>1. /\ DOMAIN run = RunFields /\ run.at = "dismiss" /\ host' = host /\ failed' = failed \cup refused
          /\ run.post = run.found
      BY <1>9, Running DEF ClearDismiss, Faulted, OneInv, KeepInv
    <2>2. CASE run.remove = {}
      <3> DEFINE ids == CommentIds(run.seen, refused)
      <3>1. run' = [run EXCEPT !.at = "delete", !.remove = ids] /\ page' = page
        BY <1>9, <2>2 DEF ClearDismiss
      <3>2. Clean' => \A c \in page.inline : c.id \in ids
        <4> SUFFICES ASSUME Clean' PROVE \A c \in page.inline : c.id \in ids
          OBVIOUS
        <4>1. host = "github" /\ "list" \notin refused /\ Single(page) /\ \A c \in page.inline : c.note \in run.seen
          BY <2>1, CleanBefore DEF Clean, OneInv, SingleInv
        <4> QED
          BY <1>0, <4>1, WholeLists
      <3> HIDE DEF ids
      <3>3. run'.at = "delete" /\ run'.remove = ids /\ run'.post = run.post /\ run'.found = run.found
        BY <2>1, <3>1 DEF RunFields
      <3> QED
        BY <2>1, <3>1, <3>2, <3>3, CleanBefore DEF OneInv, SingleInv, KeepInv, Single
    <2>3. CASE run.remove # {}
      <3>1. PICK id, a : /\ a = Dismiss(id, refused) /\ page' = a.page
                         /\ run' = IF a.ok THEN [run EXCEPT !.remove = @ \ {id}] ELSE [run EXCEPT !.at = "post", !.remove = {}]
        BY <1>9, <2>3 DEF ClearDismiss
      <3>2. page'.inline = page.inline /\ (a.ok \/ "dismiss" \in refused)
        BY <1>0, <3>1, DismissSays DEF NotesSaid
      <3>3. /\ run'.at = (IF a.ok THEN "dismiss" ELSE "post") /\ run'.post = run.post /\ run'.found = run.found
            /\ run'.seen = run.seen
        <4>1. CASE a.ok
          BY <2>1, <3>1, <4>1 DEF RunFields
        <4>2. CASE ~a.ok
          BY <2>1, <3>1, <4>2 DEF RunFields
        <4> QED
          BY <4>1, <4>2
      <3>4. Clean' => a.ok
        BY <2>1, <3>2 DEF Clean
      <3>5. run'.at \in {"dismiss", "post"} /\ (Clean' => run'.at = "dismiss")
        BY <3>3, <3>4
      <3> QED
        BY <2>1, <3>2, <3>3, <3>5, CleanBefore DEF OneInv, SingleInv, KeepInv, Single
    <2> QED
      BY <2>2, <2>3
  <1>10. ASSUME NEW refused, ClearDelete(refused) PROVE OneInv'
    <2>1. /\ DOMAIN run = RunFields /\ run.at = "delete" /\ host' = host /\ failed' = failed \cup refused
          /\ run.post = run.found
      BY <1>10, Running DEF ClearDelete, Faulted, OneInv, KeepInv
    <2>2. CASE run.remove = {}
      <3>1. run'.at = "post" /\ run'.post = run.post /\ run'.found = run.found /\ page' = page
        BY <1>10, <2>1, <2>2 DEF ClearDelete, RunGoesTo, RunFields
      <3> QED
        BY <2>1, <2>2, <3>1, CleanBefore DEF OneInv, SingleInv, KeepInv, Single
    <2>3. CASE run.remove # {}
      <3>1. PICK id, a : /\ a = DeleteComment(id, refused) /\ page' = a.page
                         /\ run' = IF a.ok THEN [run EXCEPT !.remove = @ \ {id}] ELSE [run EXCEPT !.at = "post", !.remove = {}]
        BY <1>10, <2>3 DEF ClearDelete
      <3>2. \/ page' = page /\ (host = "github" => ~a.ok /\ "delete" \in refused)
            \/ a.ok /\ page'.inline = {c \in page.inline : c.id # id}
        BY <1>0, <3>1, DeleteRemoves, WithoutOne
      <3>3. /\ run'.at = (IF a.ok THEN "delete" ELSE "post") /\ run'.post = run.post /\ run'.found = run.found
            /\ a.ok => run'.remove = run.remove \ {id}
        <4>1. CASE a.ok
          BY <2>1, <3>1, <4>1 DEF RunFields
        <4>2. CASE ~a.ok
          BY <2>1, <3>1, <4>2 DEF RunFields
        <4> QED
          BY <4>1, <4>2
      <3>4. Clean' => a.ok /\ page'.inline = {c \in page.inline : c.id # id}
        BY <2>1, <3>2 DEF Clean
      <3>5. run'.at \in {"delete", "post"} /\ (Clean' => run'.at = "delete" /\ run'.remove = run.remove \ {id})
        BY <3>3, <3>4
      <3> QED
        BY <2>1, <3>3, <3>4, <3>5, CleanBefore DEF OneInv, SingleInv, KeepInv, Single
    <2> QED
      BY <2>2, <2>3
  <1>11. ASSUME NEW refused, Post(refused) PROVE OneInv'
    <2> DEFINE event == IF RequestChanges THEN "REQUEST_CHANGES" ELSE "COMMENT"
    <2>1. PICK a : a = PostReview([event |-> event, comments |-> run.post], refused)
      OBVIOUS
    <2>2. /\ page' = a.page /\ RunGoesTo(IF a.ok /\ "answer" \notin refused THEN "finish" ELSE "fail")
          /\ host' = host /\ failed' = failed \cup refused /\ run.at = "post"
      BY <1>11, <2>1 DEF Post, Faulted
    <2> HIDE DEF event
    <2>3. run.post \in SUBSET Findings /\ DOMAIN run = RunFields
      BY <2>2, Running
    <2>4. /\ run'.at = (IF a.ok /\ "answer" \notin refused THEN "finish" ELSE "fail")
          /\ run'.found = run.found /\ run'.raced = run.raced
      BY <2>2, <2>3 DEF RunGoesTo, RunFields
    <2>5. \/ ~a.ok /\ page' = page
          \/ a.ok /\ \E taken \in SUBSET run.post : /\ Added(page, page', taken)
                                                    /\ host = "github" => taken = run.post
                                                    /\ "refs" \notin refused => run.post \subseteq taken \cup refused
      BY <1>0, <2>1, <2>2, <2>3, PostAdds
    <2>6. CASE ~a.ok /\ page' = page
      BY <2>2, <2>4, <2>6, OneElsewhere
    <2>7. CASE a.ok /\ \E taken \in SUBSET run.post : /\ Added(page, page', taken)
                                                      /\ host = "github" => taken = run.post
                                                      /\ "refs" \notin refused => run.post \subseteq taken \cup refused
      <3>1. PICK taken \in SUBSET run.post : /\ Added(page, page', taken)
                                             /\ host = "github" => taken = run.post
                                             /\ "refs" \notin refused => run.post \subseteq taken \cup refused
        BY <2>7
      <3>2. PICK new : /\ page'.inline = page.inline \cup new /\ {c.fp : c \in new} = taken
                       /\ \A c, d \in new : c.fp = d.fp => c = d
        BY <3>1 DEF Added
      <3>3. run'.at \in {"finish", "fail"}
        BY <2>4
      <3>4. ASSUME Clean' PROVE Single(page')
        <4>1. Single(page) /\ taken = run.post /\ \A c \in page.inline : c.fp \notin run.post
          BY <2>2, <3>1, <3>4, CleanBefore DEF OneInv, SingleInv, Clean
        <4> QED
          BY <3>2, <4>1 DEF Single
      <3>5. SingleInv'
        BY <3>3, <3>4 DEF SingleInv
      <3>6. ASSUME ~run.raced, "refs" \notin refused, NEW f \in run.found
            PROVE  f \in failed' \/ \E c \in page'.inline : c.fp = f
        <4>1. CASE f \in run.post
          BY <2>2, <3>1, <3>2, <3>6, <4>1
        <4>2. CASE f \notin run.post
          BY <2>2, <3>2, <3>6, <4>2 DEF OneInv, KeepInv
        <4> QED
          BY <4>1, <4>2
      <3>7. KeepInv'
        BY <2>2, <2>4, <3>3, <3>6 DEF KeepInv
      <3> QED
        BY <3>5, <3>7 DEF OneInv
    <2> QED
      BY <2>5, <2>6, <2>7
  <1>12. ASSUME NEW refused, Fail(refused) PROVE OneInv'
    <2>1. page'.inline = page.inline
      BY <1>0, <1>12, Running, RowClosed DEF Fail
    <2> QED
      BY <1>12, <2>1, OneElsewhere DEF Fail, Faulted, Idle
  <1>13. ASSUME NEW refused, FinishRow(refused) PROVE OneInv'
    <2>1. page'.inline = page.inline
      BY <1>0, <1>13, Running, RowClosed DEF FinishRow
    <2>2. run'.at = "save"
      BY <1>13, Running DEF FinishRow, RunGoesTo, RunFields
    <2> QED
      BY <1>13, <2>1, <2>2, OneElsewhere DEF FinishRow, Faulted
  <1>14. ASSUME NEW refused, SaveLedger(refused) PROVE OneInv'
    BY <1>14, OneElsewhere DEF SaveLedger, Faulted, Idle
  <1>15. ASSUME NEW refused, ResolveList(refused) PROVE OneInv'
    <2>1. CASE run = Idle
      BY <1>15, <2>1, OneBeside DEF ResolveList, Faulted
    <2>2. CASE run # Idle
      <3>1. DOMAIN run = RunFields
        BY <2>2 DEF Shape, RunOK
      <3>2. /\ run'.at = run.at /\ run'.kind = run.kind /\ run'.post = run.post /\ run'.seen = run.seen
            /\ run'.remove = run.remove /\ run'.found = run.found /\ run'.raced
        BY <1>15, <2>2, <3>1 DEF ResolveList, RunFields
      <3> QED
        BY <1>15, <3>2, OneBeside DEF ResolveList, Faulted
    <2> QED
      BY <2>1, <2>2
  <1>16. ASSUME NEW refused, ResolveDismiss(refused) PROVE OneInv'
    <2>1. page'.inline = page.inline
      BY <1>0, <1>16, ReviewDismissed DEF ResolveDismiss, NotesSaid
    <2> QED
      BY <1>16, <2>1, OneBeside DEF ResolveDismiss, Faulted
  <1>17. ASSUME NEW refused, ResolveDelete(refused) PROVE OneInv'
    <2>1. page'.inline \subseteq page.inline
      BY <1>0, <1>17, CommentDeleted DEF ResolveDelete
    <2>2. run' = run /\ cmd # Idle
      BY <1>17 DEF ResolveDelete, Idle
    <2>3. run'.at = "idle" \/ run'.raced
      BY <2>2 DEF ReplyInv, Idle
    <2> QED
      BY <1>17, <2>1, <2>3, OneBeside DEF ResolveDelete, Faulted
  <1>18. ASSUME NEW refused, ResolveLedger(refused) PROVE OneInv'
    BY <1>18, OneBeside DEF ResolveLedger, Faulted
  <1> QED
    BY <1>1, <1>2, <1>3, <1>4, <1>5, <1>6, <1>7, <1>8, <1>9, <1>10, <1>11, <1>12, <1>13, <1>14, <1>15, <1>16, <1>17,
       <1>18 DEF Next

(* A finding has one comment: never two on GitHub while the page is listed  *)
(* and cleared, and one, new or kept, once the review that found it is on   *)
(* the page.                                                                *)
THEOREM OneCommentForEach ==
  ASSUME PostingAssumption, FitsAPage
  PROVE  Spec => []OneCommentEach
  <1>1. Shape /\ OneInv => OneCommentEach
    <2> SUFFICES ASSUME Shape, OneInv PROVE OneCommentEach
      OBVIOUS
    <2>1. ASSUME Clean, NEW f \in Findings PROVE Cardinality(OnLine(f)) <= 1
      <3>1. CASE OnLine(f) = {}
        BY <3>1, FS_EmptySet
      <3>2. CASE OnLine(f) # {}
        <4>1. PICK c : c \in OnLine(f)
          BY <3>2
        <4>2. OnLine(f) = {c}
          BY <2>1, <4>1 DEF OnLine, OneInv, SingleInv, Single
        <4>3. Cardinality({c}) = 1
          BY FS_Singleton, Zenon
        <4> QED
          BY <4>2, <4>3
      <3> QED
        BY <3>1, <3>2
    <2>2. run.at = "finish" /\ ~run.raced /\ "refs" \notin failed
            => run.found \subseteq {c.fp : c \in page.inline} \cup failed
      BY DEF OneInv, KeepInv
    <2> QED
      BY <2>1, <2>2 DEF OneCommentEach, Clean
  <1> QED
    BY <1>1, ShapeAlways, RepliesInv, CountHoldsFirst, CountStays, OneHoldsFirst, OneStays, PTL DEF Spec

=============================================================================
