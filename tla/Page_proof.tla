----------------------------- MODULE Page_proof -----------------------------
(***************************************************************************)
(* Proofs about Commands and PullDescription: that the pause is what was   *)
(* asked, and that the summary costs the author no word; and, with what    *)
(* Posting_proof says of the reviews, about the three on one pull request. *)
(***************************************************************************)
EXTENDS Posting_proof

-----------------------------------------------------------------------------
(***************************************************************************)
(* The pause.                                                              *)
(***************************************************************************)
Newest(set) == {m \in set : \A t \in set : t.id <= m.id}

LatestOf(set, n) == {c \in set : Cardinality({d \in set : d.id > c.id}) < n}
OldestOf(set, n) == {c \in set : Cardinality({d \in set : d.id < c.id}) < n}

(* The hosts order comments alike.                                          *)
LEMMA HostsListAlike ==
  ASSUME NEW set, NEW n
  PROVE  /\ C!GitHub!Latest(set, n) = LatestOf(set, n) /\ C!GitHub!Oldest(set, n) = OldestOf(set, n)
         /\ C!GitLab!Latest(set, n) = LatestOf(set, n)
         /\ C!Bitbucket!Latest(set, n) = LatestOf(set, n) /\ C!Bitbucket!Oldest(set, n) = OldestOf(set, n)
         /\ C!Server!Latest(set, n) = LatestOf(set, n)
         /\ C!Azure!Latest(set, n) = LatestOf(set, n)
  <1>1. C!GitHub!Latest(set, n) = LatestOf(set, n) /\ C!GitHub!Oldest(set, n) = OldestOf(set, n)
    <2>1. \A s : C!GitHub!Cardinality(s) = Cardinality(s)
      BY DEF C!GitHub!Cardinality, Cardinality
    <2> QED
      BY <2>1, Zenon DEF C!GitHub!Latest, C!GitHub!Oldest, LatestOf, OldestOf
  <1>2. C!GitLab!Latest(set, n) = LatestOf(set, n)
    <2>1. \A s : C!GitLab!Cardinality(s) = Cardinality(s)
      BY DEF C!GitLab!Cardinality, Cardinality
    <2> QED
      BY <2>1, Zenon DEF C!GitLab!Latest, LatestOf
  <1>3. C!Bitbucket!Latest(set, n) = LatestOf(set, n) /\ C!Bitbucket!Oldest(set, n) = OldestOf(set, n)
    <2>1. \A s : C!Bitbucket!Cardinality(s) = Cardinality(s)
      BY DEF C!Bitbucket!Cardinality, Cardinality
    <2> QED
      BY <2>1, Zenon DEF C!Bitbucket!Latest, C!Bitbucket!Oldest, LatestOf, OldestOf
  <1>4. C!Server!Latest(set, n) = LatestOf(set, n)
    <2>1. \A s : C!Server!Cardinality(s) = Cardinality(s)
      BY DEF C!Server!Cardinality, Cardinality
    <2> QED
      BY <2>1, Zenon DEF C!Server!Latest, LatestOf
  <1>5. C!Azure!Latest(set, n) = LatestOf(set, n)
    <2>1. \A s : C!Azure!Cardinality(s) = Cardinality(s)
      BY DEF C!Azure!Cardinality, Cardinality
    <2> QED
      BY <2>1, Zenon DEF C!Azure!Latest, LatestOf
  <1> QED
    BY <1>1, <1>2, <1>3, <1>4, <1>5

(* What fits is listed whole, from either end.                              *)
LEMMA BothEndsListed ==
  ASSUME NEW set, NEW n \in Nat, IsFiniteSet(set), Cardinality(set) <= n, \A c \in set : c.id \in Nat
  PROVE  LatestOf(set, n) = set /\ OldestOf(set, n) = set
  <1>1. ASSUME NEW c \in set, NEW some, some \subseteq set, c \notin some PROVE Cardinality(some) < n
    <2>1. IsFiniteSet(set \ {c}) /\ Cardinality(set \ {c}) = Cardinality(set) - 1 /\ Cardinality(set) \in Nat
      BY FS_RemoveElement, FS_CardinalityType
    <2>2. some \subseteq set \ {c}
      BY <1>1
    <2>3. Cardinality(some) \in Nat /\ Cardinality(some) <= Cardinality(set \ {c})
      BY <2>1, <2>2, FS_Subset, FS_CardinalityType
    <2> QED
      BY <2>1, <2>3
  <1>2. ASSUME NEW c \in set PROVE Cardinality({d \in set : d.id < c.id}) < n
    <2> DEFINE some == {d \in set : d.id < c.id}
    <2>1. some \subseteq set /\ c \notin some
      OBVIOUS
    <2> HIDE DEF some
    <2>2. Cardinality(some) < n
      BY <1>1, <2>1
    <2> QED
      BY <2>2 DEF some
  <1>3. ASSUME NEW c \in set PROVE Cardinality({d \in set : d.id > c.id}) < n
    <2> DEFINE some == {d \in set : d.id > c.id}
    <2>1. some \subseteq set /\ c \notin some
      OBVIOUS
    <2> HIDE DEF some
    <2>2. Cardinality(some) < n
      BY <1>1, <2>1
    <2> QED
      BY <2>2 DEF some
  <1> QED
    BY <1>2, <1>3 DEF LatestOf, OldestOf

\* The one latest comment is the newest.
LEMMA LatestIsNewest ==
  ASSUME NEW set, IsFiniteSet(set), \A c \in set : c.id \in Nat
  PROVE  LatestOf(set, 1) = Newest(set)
  <1>1. ASSUME NEW c \in set
        PROVE  Cardinality({d \in set : d.id > c.id}) < 1 <=> \A t \in set : t.id <= c.id
    <2> DEFINE some == {d \in set : d.id > c.id}
    <2>1. some = {} <=> \A t \in set : t.id <= c.id
      OBVIOUS
    <2>2. IsFiniteSet(some)
      BY FS_Subset
    <2> HIDE DEF some
    <2>3. Cardinality(some) \in Nat /\ (Cardinality(some) = 0 <=> some = {})
      BY <2>2, FS_CardinalityType, FS_EmptySet
    <2>4. Cardinality(some) < 1 <=> some = {}
      BY <2>3
    <2> QED
      BY <2>1, <2>4 DEF some
  <1> QED
    BY <1>1 DEF LatestOf, Newest

NotesOK ==
  /\ next \in Nat \ {0} /\ IsFiniteSet(notes)
  /\ \A n \in notes : DOMAIN n = {"id", "says"} /\ n.id \in Nat \ {0} /\ n.id < next
  /\ \A m, n \in notes : m.id = n.id => m = n

(* Every host finds the newest comment that has the mark, while its         *)
(* comments fit in a page.                                                  *)
LEMMA FindsNewest ==
  ASSUME C!CommandsAssumption, NotesOK, Cardinality(notes) <= StatusPage, NEW marked, marked \subseteq notes
  PROVE  C!FindComment(marked, {}) = Newest(marked)
  <1>1. IsFiniteSet(notes) /\ (\A c \in notes : c.id \in Nat) /\ IsFiniteSet(marked) /\ (\A c \in marked : c.id \in Nat)
    BY FS_Subset DEF NotesOK
  <1>2. Cardinality(notes) \in Nat /\ StatusPage \in Nat /\ 2 * StatusPage \in Nat /\ Cardinality(notes) <= 2 * StatusPage
    BY <1>1, FS_CardinalityType DEF C!CommandsAssumption
  <1>3. LatestOf(notes, StatusPage) = notes /\ OldestOf(notes, StatusPage) = notes /\ LatestOf(notes, 2 * StatusPage) = notes
    BY <1>1, <1>2, BothEndsListed
  <1>4. LatestOf(marked, 1) = Newest(marked)
    BY <1>1, LatestIsNewest
  <1>5. notes \cap marked = marked /\ "list" \notin {}
    OBVIOUS
  <1>6. C!GitHub!FindComment(notes, marked, {}) = LatestOf(marked, 1)
    BY <1>3, <1>5, HostsListAlike, Zenon DEF C!GitHub!FindComment, C!GitHub!Listed
  <1>7. C!GitLab!FindComment(notes, marked, {}) = LatestOf(marked, 1)
    BY <1>3, <1>5, HostsListAlike, Zenon DEF C!GitLab!FindComment
  <1>8. C!Bitbucket!FindComment(notes, marked, {}) = LatestOf(marked, 1)
    BY <1>3, <1>5, HostsListAlike, Zenon DEF C!Bitbucket!FindComment, C!Bitbucket!Listed
  <1>9. C!Server!FindComment(notes, marked, {}) = LatestOf(marked, 1)
    BY <1>3, <1>5, HostsListAlike, Zenon DEF C!Server!FindComment, C!Server!ActivityComments
  <1>10. C!Azure!FindComment(notes, marked, {}) = LatestOf(marked, 1)
    BY <1>3, <1>5, HostsListAlike, Zenon DEF C!Azure!FindComment, C!Azure!ListThreads
  <1> QED
    BY <1>4, <1>6, <1>7, <1>8, <1>9, <1>10, Zenon DEF C!FindComment

(* And there is one.                                                        *)
LEMMA NewestThere ==
  ASSUME NotesOK, NEW marked, marked \subseteq notes, marked # {}
  PROVE  \E m \in marked : Newest(marked) = {m} /\ C!The(Newest(marked)) = m
  <1> DEFINE ages == {next - n.id : n \in marked}
  <1>1. ages \subseteq Nat /\ ages # {}
    BY DEF NotesOK
  <1>2. PICK i \in ages : \A j \in ages : i <= j
    BY <1>1, LowestOf
  <1>3. PICK m \in marked : next - m.id = i
    OBVIOUS
  <1>4. \A n \in marked : next - m.id <= next - n.id
    BY <1>2, <1>3
  <1>5. \A n \in marked : n.id <= m.id
    BY <1>4 DEF NotesOK
  <1>6. Newest(marked) = {m}
    BY <1>5 DEF Newest, NotesOK
  <1> QED
    BY <1>6 DEF C!The

JobFields == {"at", "text", "note", "was"}
JobSteps == {"skip?", "pause", "mark", "resume", "unmark", "say", "create", "delete"}

JobOK(j, top) ==
  \/ j = C!Free
  \/ /\ DOMAIN j = JobFields /\ j.at \in JobSteps /\ j.note \in Nat /\ j.note < top
     /\ j.text \notin {"chat", "paused"}

(* What Commands' variables are at every step.                              *)
PauseShape ==
  /\ NotesOK /\ asked \in BOOLEAN
  /\ DOMAIN work = Workers /\ \A w \in Workers : JobOK(work[w], next)

\* Worker w alone has another job.
Only(w) == DOMAIN work' = Workers /\ \A v \in Workers \ {w} : work'[v] = work[v]

\* A worker that is not free has a job with all its fields.
LEMMA JobAt ==
  ASSUME PauseShape, NEW w \in Workers, work[w].at # "free"
  PROVE  /\ DOMAIN work[w] = JobFields /\ work[w].at \in JobSteps /\ work[w].note \in Nat /\ work[w].note < next
         /\ work[w].text \notin {"chat", "paused"} /\ work[w] # C!Free
  BY DEF PauseShape, JobOK, C!Free

\* One worker's job changes and no other's.
LEMMA Changes ==
  ASSUME PauseShape, NEW w \in Workers, NEW j, work' = [work EXCEPT ![w] = j]
  PROVE  Only(w) /\ work'[w] = j
  BY DEF PauseShape, Only

(* The notes after a step: a new one, one rewritten, or one gone.           *)
Written(says) == notes' = notes \cup {[id |-> next, says |-> says]} /\ next' = next + 1

\* A new comment has a new id,
LEMMA NoteWritten ==
  ASSUME NotesOK, NEW says, Written(says)
  PROVE  NotesOK' /\ next < next'
  <1> DEFINE new == [id |-> next, says |-> says]
  <1>1. new.id = next /\ DOMAIN new = {"id", "says"}
    OBVIOUS
  <1>2. notes' = notes \cup {new} /\ next' = next + 1
    BY DEF Written
  <1> HIDE DEF new
  <1>3. IsFiniteSet(notes')
    BY <1>2, FS_AddElement DEF NotesOK
  <1> QED
    BY <1>1, <1>2, <1>3 DEF NotesOK

\* a rewritten one keeps its id and leaves the others,
LEMMA NoteRewritten ==
  ASSUME NotesOK, NEW id, NEW says, C!Rewrite(id, says)
  PROVE  /\ NotesOK' /\ {n.id : n \in notes'} = {n.id : n \in notes} /\ next' = next
         /\ \A m \in notes' : IF m.id = id THEN m.says = says ELSE m \in notes
         /\ \A n \in notes : n.id # id => n \in notes'
  <1> DEFINE f == [n \in notes |-> IF n.id = id THEN [n EXCEPT !.says = says] ELSE n]
  <1>1. next' = next /\ notes' = {f[n] : n \in notes}
    BY DEF C!Rewrite
  <1>2. ASSUME NEW n \in notes
        PROVE  f[n].id = n.id /\ DOMAIN f[n] = {"id", "says"} /\ (IF n.id = id THEN f[n].says = says ELSE f[n] = n)
    BY DEF NotesOK
  <1>3. IsFiniteSet(notes')
    <2>1. f \in Surjection(notes, notes')
      BY <1>1 DEF Surjection
    <2> HIDE DEF f
    <2> QED
      BY <2>1, FS_Surjection DEF NotesOK
  <1> HIDE DEF f
  <1>4. ASSUME NEW m \in notes', NEW k \in notes', m.id = k.id PROVE m = k
    BY <1>1, <1>2, <1>4 DEF NotesOK
  <1>5. ASSUME NEW m \in notes' PROVE DOMAIN m = {"id", "says"} /\ m.id \in Nat \ {0} /\ m.id < next
    BY <1>1, <1>2 DEF NotesOK
  <1>6. {n.id : n \in notes'} = {n.id : n \in notes}
    BY <1>1, <1>2
  <1> QED
    BY <1>1, <1>2, <1>3, <1>4, <1>5, <1>6 DEF NotesOK

\* and without some of them the rest is as before.
LEMMA NoteGone ==
  ASSUME NotesOK, NEW some, some \subseteq notes, notes' = some, next' = next
  PROVE  NotesOK'
  BY FS_Subset DEF NotesOK

(* A job stays what it is while ids only grow.                              *)
LEMMA ShapeOn ==
  ASSUME PauseShape, NotesOK', next <= next', asked' \in BOOLEAN, NEW w \in Workers, Only(w), JobOK(work'[w], next')
  PROVE  PauseShape'
  <1>1. ASSUME NEW v \in Workers PROVE JobOK(work'[v], next')
    <2>1. CASE v = w
      BY <2>1
    <2>2. CASE v # w
      <3>1. work'[v] = work[v] /\ JobOK(work[v], next)
        BY <2>2 DEF Only, PauseShape
      <3>2. next \in Nat /\ next' \in Nat
        BY DEF PauseShape, NotesOK
      <3>3. JobOK(work[v], next')
        BY <3>1, <3>2 DEF JobOK
      <3> QED
        BY <3>1, <3>3
    <2> QED
      BY <2>1, <2>2
  <1> QED
    BY <1>1 DEF PauseShape, Only

\* The types of the pause at the start.
LEMMA PauseShapeFirst ==
  ASSUME C!Init
  PROVE  PauseShape
  <1>1. notes = {} /\ next = 1 /\ asked = FALSE /\ work = [w \in Workers |-> C!Free]
    BY DEF C!Init
  <1>2. NotesOK
    BY <1>1, FS_EmptySet DEF NotesOK
  <1>3. DOMAIN work = Workers /\ \A w \in Workers : JobOK(work[w], next)
    BY <1>1 DEF JobOK
  <1> QED
    BY <1>1, <1>2, <1>3 DEF PauseShape

(* What is found is one of the comments.                                    *)
LEMMA FoundIsThere ==
  ASSUME NEW marked, NEW refused, NEW found, marked \subseteq notes, found = C!FindComment(marked, refused)
  PROVE  found \subseteq marked
  <1>1. \A set, n : C!GitHub!Latest(set, n) \subseteq set
    BY DEF C!GitHub!Latest
  <1>2. \A set, n : C!GitLab!Latest(set, n) \subseteq set
    BY DEF C!GitLab!Latest
  <1>3. \A set, n : C!Bitbucket!Latest(set, n) \subseteq set
    BY DEF C!Bitbucket!Latest
  <1>4. \A set, n : C!Server!Latest(set, n) \subseteq set
    BY DEF C!Server!Latest
  <1>5. \A set, n : C!Azure!Latest(set, n) \subseteq set
    BY DEF C!Azure!Latest
  <1>6. C!GitHub!FindComment(notes, marked, refused) \subseteq marked
    BY <1>1 DEF C!GitHub!FindComment
  <1>7. C!GitLab!FindComment(notes, marked, refused) \subseteq marked
    BY <1>2 DEF C!GitLab!FindComment
  <1>8. C!Bitbucket!FindComment(notes, marked, refused) \subseteq marked
    BY <1>3 DEF C!Bitbucket!FindComment
  <1>9. C!Server!FindComment(notes, marked, refused) \subseteq marked
    BY <1>4 DEF C!Server!FindComment
  <1>10. C!Azure!FindComment(notes, marked, refused) \subseteq marked
    BY <1>5 DEF C!Azure!FindComment
  <1> QED
    BY <1>6, <1>7, <1>8, <1>9, <1>10 DEF C!FindComment

(* What a step does to worker w's job.                                      *)
MovesTo(w, to) == work' = [work EXCEPT ![w].at = to]
MovesWith(w, to, id) == work' = [work EXCEPT ![w].at = to, ![w].note = id]
MovesOver(w, to, id, was) == work' = [work EXCEPT ![w].at = to, ![w].note = id, ![w].was = was]

\* Worker w alone has moved on, and its job has these.
Moved(w, to, id, was) ==
  /\ Only(w) /\ DOMAIN work'[w] = JobFields
  /\ work'[w].at = to /\ work'[w].note = id /\ work'[w].text = work[w].text /\ work'[w].was = was

\* However a job moves on, it stays a job.
LEMMA Moves ==
  ASSUME PauseShape, NEW w \in Workers, work[w].at # "free"
  PROVE  /\ \A to : MovesTo(w, to) => Moved(w, to, work[w].note, work[w].was)
         /\ \A to, id : MovesWith(w, to, id) => Moved(w, to, id, work[w].was)
         /\ \A to, id, was : MovesOver(w, to, id, was) => Moved(w, to, id, was)
  <1>1. DOMAIN work = Workers /\ DOMAIN work[w] = JobFields
    BY JobAt DEF PauseShape
  <1>2. ASSUME NEW to, MovesTo(w, to) PROVE Moved(w, to, work[w].note, work[w].was)
    <2>1. work' = [work EXCEPT ![w] = [work[w] EXCEPT !.at = to]]
      BY <1>1, <1>2 DEF MovesTo
    <2> QED
      BY <1>1, <2>1 DEF Only, JobFields, Moved
  <1>3. ASSUME NEW to, NEW id, MovesWith(w, to, id) PROVE Moved(w, to, id, work[w].was)
    <2>1. work' = [work EXCEPT ![w] = [work[w] EXCEPT !.at = to, !.note = id]]
      BY <1>1, <1>3 DEF MovesWith
    <2> QED
      BY <1>1, <2>1 DEF Only, JobFields, Moved
  <1>4. ASSUME NEW to, NEW id, NEW was, MovesOver(w, to, id, was) PROVE Moved(w, to, id, was)
    <2>1. work' = [work EXCEPT ![w] = [work[w] EXCEPT !.at = to, !.note = id, !.was = was]]
      BY <1>1, <1>4 DEF MovesOver
    <2> QED
      BY <1>1, <2>1 DEF Only, JobFields, Moved
  <1> QED
    BY <1>2, <1>3, <1>4

(* What Take gives a worker.                                                *)
LEMMA TakesJob ==
  ASSUME C!CommandsAssumption, PauseShape, NEW w \in Workers, NEW command \in CommandNames, NEW author, NEW gate,
         C!Take(w, command, author, gate)
  PROVE  \/ work' = work
         \/ /\ Only(w) /\ DOMAIN work'[w] = JobFields /\ work'[w].at \in {"skip?", "pause", "resume", "say"}
            /\ work'[w].note = 0 /\ work'[w].was = "none" /\ work'[w].text \notin {"chat", "paused"}
  <1>1. ASSUME NEW at \in {"skip?", "pause", "resume", "say"}, NEW text, text \notin {"chat", "paused"},
               work' = [work EXCEPT ![w] = [at |-> at, text |-> text, note |-> 0, was |-> "none"]]
        PROVE  /\ Only(w) /\ DOMAIN work'[w] = JobFields /\ work'[w].at \in {"skip?", "pause", "resume", "say"}
               /\ work'[w].note = 0 /\ work'[w].was = "none" /\ work'[w].text \notin {"chat", "paused"}
    BY <1>1 DEF PauseShape, Only, JobFields
  <1>2. command \notin {"chat", "paused"} /\ C!DispatchCommand(command) \in {"pause", "resume", "say"}
    BY DEF C!CommandsAssumption, C!DispatchCommand
  <1>3. \/ work' = work
        \/ \E at \in {"skip?", "pause", "resume", "say"}, text \in {"cap reached", "not enabled", "none", "refused", command} :
             work' = [work EXCEPT ![w] = [at |-> at, text |-> text, note |-> 0, was |-> "none"]]
    <2> DEFINE job(at, text) == work' = [work EXCEPT ![w] = [at |-> at, text |-> text, note |-> 0, was |-> "none"]]
    <2>1. \/ job("say", "cap reached") \/ job("say", "not enabled") \/ work' = work \/ job("skip?", "none")
          \/ job("say", "refused") \/ job(C!DispatchCommand(command), command)
      BY Zenon DEF C!Take
    <2> QED
      BY <1>2, <2>1
  <1>4. CASE work' = work
    BY <1>4
  <1>5. CASE work' # work
    <2>1. PICK at \in {"skip?", "pause", "resume", "say"}, text \in {"cap reached", "not enabled", "none", "refused", command} :
             work' = [work EXCEPT ![w] = [at |-> at, text |-> text, note |-> 0, was |-> "none"]]
      BY <1>3, <1>5
    <2>2. text \notin {"chat", "paused"}
      BY <1>2, <2>1
    <2> QED
      BY <1>1, <2>1, <2>2
  <1> QED
    BY <1>4, <1>5

(* The steps of worker w, by what they write.                               *)
LEMMA PauseShapeStays ==
  ASSUME C!CommandsAssumption, PauseShape, [C!Next]_(C!vars)
  PROVE  PauseShape'
  <1>0. NotesOK /\ next \in Nat /\ next <= next /\ asked \in BOOLEAN
    BY DEF PauseShape, NotesOK
  <1>same. ASSUME UNCHANGED <<notes, next>> PROVE NotesOK' /\ next <= next'
    BY <1>0, <1>same DEF NotesOK
  <1>1. CASE UNCHANGED C!vars
    BY <1>1 DEF C!vars, PauseShape, NotesOK, JobOK
  <1>2. CASE C!Chat
    <2>1. NotesOK' /\ next < next' /\ work' = work /\ asked' = asked
      BY <1>0, <1>2, NoteWritten DEF C!Chat, Written
    <2>2. ASSUME NEW w \in Workers PROVE JobOK(work[w], next')
      BY <1>0, <2>1 DEF PauseShape, JobOK, NotesOK
    <2> QED
      BY <2>1, <2>2 DEF PauseShape
  <1>free. ASSUME NEW w \in Workers, C!Ends(w) PROVE Only(w) /\ JobOK(work'[w], next')
    BY <1>free, Changes DEF C!Ends, JobOK
  <1>3. ASSUME NEW w \in Workers, NEW command \in CommandNames, NEW author \in Authors, NEW gate \in Gates,
               C!Take(w, command, author, gate)
        PROVE  PauseShape'
    <2>1. NotesOK' /\ next' = next /\ asked' = asked
      BY <1>3, <1>same DEF C!Take
    <2>2. CASE work' = work
      BY <2>1, <2>2 DEF PauseShape
    <2>3. CASE work' # work
      <3>1. Only(w) /\ JobOK(work'[w], next')
        BY <1>0, <1>3, <2>1, <2>3, TakesJob DEF JobOK, JobSteps, NotesOK
      <3> QED
        BY <1>0, <2>1, <3>1, ShapeOn
    <2> QED
      BY <2>2, <2>3
  <1>4. ASSUME NEW w \in Workers, NEW refused, C!ShouldSkipAutomatic(w, refused) PROVE PauseShape'
    BY <1>0, <1>4, <1>same, <1>free, ShapeOn DEF C!ShouldSkipAutomatic
  <1>5. ASSUME NEW w \in Workers, NEW refused, C!FindStatus(w, refused) PROVE PauseShape'
    <2> DEFINE found == C!FindComment(C!Status, refused)
    <2> DEFINE id == IF found = {} THEN 0 ELSE C!The(found).id
    <2>1. /\ work[w].at = "pause" /\ MovesWith(w, "mark", id)
          /\ UNCHANGED <<notes, next, asked>>
      BY <1>5 DEF C!FindStatus, MovesWith
    <2>2. id \in Nat /\ id < next
      <3>1. found \subseteq notes
        BY FoundIsThere DEF C!Status
      <3>2. found # {} => C!The(found) \in found
        BY DEF C!The
      <3> QED
        BY <1>0, <3>1, <3>2 DEF NotesOK
    <2> HIDE DEF id
    <2>3. Only(w) /\ DOMAIN work'[w] = JobFields /\ work'[w].at = "mark" /\ work'[w].note = id /\ work'[w].text = work[w].text
      BY <2>1, Moves DEF Moved
    <2>4. JobOK(work'[w], next')
      BY <2>1, <2>2, <2>3, JobAt DEF JobOK, JobSteps
    <2> QED
      BY <1>0, <1>same, <2>1, <2>3, <2>4, ShapeOn
  <1>6. ASSUME NEW w \in Workers, NEW refused, C!FindMark(w, refused) PROVE PauseShape'
    <2> DEFINE found == C!FindComment(C!Paused, refused)
    <2> DEFINE id == C!The(found).id
    <2>1. /\ work[w].at = "resume" /\ UNCHANGED <<notes, next>>
          /\ IF found = {} THEN C!Ends(w) /\ asked' = FALSE
             ELSE MovesWith(w, "unmark", id) /\ asked' = asked
      BY <1>6 DEF C!FindMark, MovesWith
    <2>2. found # {} => id \in Nat /\ id < next
      <3>1. found \subseteq notes
        BY FoundIsThere DEF C!Paused
      <3>2. found # {} => C!The(found) \in found
        BY DEF C!The
      <3> QED
        BY <1>0, <3>1, <3>2 DEF NotesOK
    <2> HIDE DEF found, id
    <2>3. CASE found = {}
      BY <1>0, <1>same, <1>free, <2>1, <2>3, ShapeOn
    <2>4. CASE found # {}
      <3>1. Only(w) /\ DOMAIN work'[w] = JobFields /\ work'[w].at = "unmark" /\ work'[w].note = id /\ work'[w].text = work[w].text
        BY <2>1, <2>4, Moves DEF Moved
      <3>2. JobOK(work'[w], next')
        BY <2>1, <2>2, <2>4, <3>1, JobAt DEF JobOK, JobSteps
      <3> QED
        BY <1>0, <1>same, <2>1, <2>4, <3>1, <3>2, ShapeOn
    <2> QED
      BY <2>3, <2>4
  <1>7. ASSUME NEW w \in Workers, NEW refused, C!SetPaused(w, refused) PROVE PauseShape'
    <2>1. C!Ends(w)
      BY <1>7 DEF C!SetPaused
    <2>2. \/ UNCHANGED <<notes, next, asked>>
          \/ \E to \in {"paused", "active"} : /\ Written(to) \/ \E id : C!Rewrite(id, to)
                                              /\ asked' = (to = "paused")
      BY <1>7, Zenon DEF C!SetPaused, C!Create, Written
    <2>3. CASE UNCHANGED <<notes, next, asked>>
      BY <1>0, <1>same, <1>free, <2>1, <2>3, ShapeOn
    <2>4. CASE ~UNCHANGED <<notes, next, asked>>
      <3>1. PICK to \in {"paused", "active"} : (Written(to) \/ \E id : C!Rewrite(id, to)) /\ asked' = (to = "paused")
        BY <2>2, <2>4
      <3>2. NotesOK' /\ next <= next'
        <4>1. CASE Written(to)
          <5>1. NotesOK' /\ next < next' /\ next' \in Nat
            BY <1>0, <4>1, NoteWritten DEF NotesOK
          <5> QED
            BY <1>0, <5>1
        <4>2. CASE \E id : C!Rewrite(id, to)
          BY <1>0, <4>2, NoteRewritten
        <4> QED
          BY <3>1, <4>1, <4>2
      <3>3. asked' \in BOOLEAN
        BY <3>1, Zenon
      <3> QED
        BY <1>free, <2>1, <3>2, <3>3, ShapeOn
    <2> QED
      BY <2>3, <2>4
  <1>8. ASSUME NEW w \in Workers, NEW refused, C!FindLast(w, refused) PROVE PauseShape'
    <2> DEFINE found == C!FindComment(C!Status, refused)
    <2> DEFINE id == C!The(found).id
    <2> DEFINE was == C!The(found).says
    <2>1. /\ work[w].at = "say" /\ UNCHANGED <<notes, next, asked>>
          /\ \/ C!Ends(w)
             \/ MovesTo(w, "create")
             \/ found # {} /\ MovesOver(w, "create", id, was)
      BY <1>8 DEF C!FindLast, MovesTo, MovesOver
    <2>2. found # {} => id \in Nat /\ id < next
      <3>1. found \subseteq notes
        BY FoundIsThere DEF C!Status
      <3>2. found # {} => C!The(found) \in found
        BY DEF C!The
      <3> QED
        BY <1>0, <3>1, <3>2 DEF NotesOK
    <2> HIDE DEF found, id, was
    <2>3. CASE C!Ends(w)
      BY <1>0, <1>same, <1>free, <2>1, <2>3, ShapeOn
    <2>4. CASE MovesTo(w, "create")
      <3>1. /\ Only(w) /\ DOMAIN work'[w] = JobFields /\ work'[w].at = "create" /\ work'[w].note = work[w].note
            /\ work'[w].text = work[w].text
        BY <2>1, <2>4, Moves DEF Moved
      <3>2. JobOK(work'[w], next')
        BY <2>1, <3>1, JobAt DEF JobOK, JobSteps
      <3> QED
        BY <1>0, <1>same, <2>1, <3>1, <3>2, ShapeOn
    <2>5. CASE found # {} /\ MovesOver(w, "create", id, was)
      <3>1. Only(w) /\ DOMAIN work'[w] = JobFields /\ work'[w].at = "create" /\ work'[w].note = id /\ work'[w].text = work[w].text
        BY <2>1, <2>5, Moves DEF Moved
      <3>2. JobOK(work'[w], next')
        BY <2>1, <2>2, <2>5, <3>1, JobAt DEF JobOK, JobSteps
      <3> QED
        BY <1>0, <1>same, <2>1, <3>1, <3>2, ShapeOn
    <2> QED
      BY <2>1, <2>3, <2>4, <2>5
  <1>9. ASSUME NEW w \in Workers, NEW refused, C!CreateComment(w, refused) PROVE PauseShape'
    <2>1. /\ work[w].at = "create" /\ (UNCHANGED <<notes, next>> \/ Written(work[w].text)) /\ asked' = asked
          /\ C!Ends(w) \/ MovesTo(w, "delete")
      BY <1>9, Zenon DEF C!CreateComment, C!Goes, MovesTo, C!Create, Written
    <2>2. NotesOK' /\ next <= next'
      <3>1. CASE UNCHANGED <<notes, next>>
        BY <1>same, <3>1
      <3>2. CASE Written(work[w].text)
        <4>1. NotesOK' /\ next < next' /\ next' \in Nat
          BY <1>0, <3>2, NoteWritten DEF NotesOK
        <4> QED
          BY <1>0, <4>1
      <3> QED
        BY <2>1, <3>1, <3>2
    <2>3. CASE C!Ends(w)
      BY <1>0, <1>free, <2>1, <2>2, <2>3, ShapeOn
    <2>4. CASE MovesTo(w, "delete")
      <3>1. /\ Only(w) /\ DOMAIN work'[w] = JobFields /\ work'[w].at = "delete" /\ work'[w].note = work[w].note
            /\ work'[w].text = work[w].text
        BY <2>1, <2>4, Moves DEF Moved
      <3>2. next' \in Nat
        BY <2>2 DEF NotesOK
      <3>3. JobOK(work'[w], next')
        BY <1>0, <2>1, <2>2, <3>1, <3>2, JobAt DEF JobOK, JobSteps
      <3> QED
        BY <1>0, <2>1, <2>2, <3>1, <3>3, ShapeOn
    <2> QED
      BY <2>1, <2>3, <2>4
  <1>10. ASSUME NEW w \in Workers, NEW refused, C!DeleteComment(w, refused) PROVE PauseShape'
    <2>1. C!Ends(w) /\ next' = next /\ asked' = asked /\ notes' \subseteq notes
      BY <1>10 DEF C!DeleteComment
    <2>2. NotesOK'
      BY <1>0, <2>1, NoteGone
    <2> QED
      BY <1>0, <1>free, <2>1, <2>2, ShapeOn
  <1> QED
    BY <1>1, <1>2, <1>3, <1>4, <1>5, <1>6, <1>7, <1>8, <1>9, <1>10 DEF C!Next

(* The room the comments take.  One that Cavix has answered again and is    *)
(* about to delete does not count: so the room they take never shrinks.     *)
Ids(ns) == {n.id : n \in ns}
Going == {work[w].note : w \in {v \in Workers : work[v].at = "delete"}}
Left == Ids(notes) \ Going
Size == Cardinality(Left)

Known == marred = {} /\ Size <= StatusPage

\* Comments are as many as their ids,
LEMMA IdsCount ==
  ASSUME NEW ns, IsFiniteSet(ns), \A m, n \in ns : m.id = n.id => m = n
  PROVE  IsFiniteSet(Ids(ns)) /\ Cardinality(Ids(ns)) = Cardinality(ns) /\ Cardinality(ns) \in Nat
  <1> DEFINE f == [n \in ns |-> n.id]
  <1>1. f \in Bijection(ns, Ids(ns))
    <2>1. f \in [ns -> Ids(ns)] /\ \A i \in Ids(ns) : \E n \in ns : f[n] = i
      BY DEF Ids
    <2>2. \A m, n \in ns : f[m] = f[n] => m = n
      OBVIOUS
    <2> HIDE DEF f
    <2> QED
      BY <2>1, <2>2 DEF Bijection, Injection, IsInjective, Surjection
  <1>2. ExistsBijection(ns, Ids(ns))
    BY <1>1 DEF ExistsBijection
  <1> HIDE DEF f
  <1> QED
    BY <1>2, FS_Bijection, FS_CardinalityType

\* and no fewer than those that stay.
LEMMA SizeCounts ==
  ASSUME NEW ns, NEW gone, NEW some, IsFiniteSet(ns), (\A m, n \in ns : m.id = n.id => m = n), some = Ids(ns) \ gone
  PROVE  IsFiniteSet(some) /\ Cardinality(some) \in Nat /\ Cardinality(some) <= Cardinality(ns)
  <1>1. IsFiniteSet(Ids(ns)) /\ Cardinality(Ids(ns)) = Cardinality(ns) /\ some \subseteq Ids(ns)
    BY IdsCount
  <1> QED
    BY <1>1, FS_Subset, FS_CardinalityType

\* What may stay grows with its ids.
LEMMA SizeGrows ==
  ASSUME NotesOK, NotesOK', Ids(notes) \ Going \subseteq Ids(notes') \ Going'
  PROVE  Size <= Size'
  <1>1. IsFiniteSet(Left')
    BY SizeCounts DEF NotesOK, Left
  <1>2. Left \subseteq Left'
    BY DEF Left
  <1> QED
    BY <1>1, <1>2, FS_Subset DEF Size

(* A step of worker w that makes it delete nothing new.                     *)
LEMMA RoomKept ==
  ASSUME NotesOK, NotesOK', NEW w \in Workers, work' = work \/ (Only(w) /\ work'[w].at # "delete"),
         Ids(notes) \subseteq Ids(notes') \/ (Ids(notes') = Ids(notes) \ {work[w].note} /\ work[w].at = "delete")
  PROVE  Size <= Size'
  <1>1. Going' \subseteq Going
    BY DEF Going, Only
  <1>2. work[w].at = "delete" => work[w].note \in Going
    BY DEF Going
  <1>3. Ids(notes) \ Going \subseteq Ids(notes') \ Going'
    BY <1>1, <1>2
  <1> QED
    BY <1>3, SizeGrows

\* A new comment adds one id.
LEMMA NewId ==
  ASSUME NotesOK, NEW says, Written(says)
  PROVE  Ids(notes') = Ids(notes) \cup {next} /\ next \notin Ids(notes)
  <1>1. [id |-> next, says |-> says].id = next
    OBVIOUS
  <1>2. next \notin Ids(notes)
    BY DEF NotesOK, Ids
  <1> QED
    BY <1>1, <1>2 DEF Written, Ids

\* While nothing has gone wrong, no comment that may stay is lost.
LEMMA RoomGrows ==
  ASSUME C!CommandsAssumption, PauseShape, PauseShape', C!Next, marred' = {}
  PROVE  marred = {} /\ Size <= Size'
  <1>0. NotesOK /\ NotesOK'
    BY DEF PauseShape
  <1>same. ASSUME UNCHANGED notes PROVE Ids(notes) \subseteq Ids(notes')
    BY <1>same
  <1>free. ASSUME NEW w \in Workers, C!Ends(w) PROVE Only(w) /\ work'[w].at # "delete"
    <2>1. Only(w) /\ work'[w] = C!Free
      BY <1>free, Changes DEF C!Ends
    <2> QED
      BY <2>1 DEF C!Free
  <1>1. CASE C!Chat
    <2>1. Written("chat") /\ work' = work /\ marred' = marred
      BY <1>1 DEF C!Chat, Written
    <2>2. Going' = Going
      BY <2>1 DEF Going
    <2>3. Ids(notes) \subseteq Ids(notes')
      BY <1>0, <2>1, NewId
    <2> QED
      BY <1>0, <2>1, <2>2, <2>3, SizeGrows
  <1>2. ASSUME NEW w \in Workers, NEW command \in CommandNames, NEW author \in Authors, NEW gate \in Gates,
               C!Take(w, command, author, gate)
        PROVE  marred = {} /\ Size <= Size'
    <2>1. work' = work \/ (Only(w) /\ work'[w].at # "delete")
      BY <1>2, TakesJob
    <2>2. marred = {} /\ UNCHANGED notes
      BY <1>2 DEF C!Take
    <2> QED
      BY <1>0, <1>same, <2>1, <2>2, RoomKept
  <1>3. ASSUME NEW w \in Workers, NEW refused, C!ShouldSkipAutomatic(w, refused) PROVE marred = {} /\ Size <= Size'
    BY <1>0, <1>3, <1>same, <1>free, RoomKept DEF C!ShouldSkipAutomatic
  <1>4. ASSUME NEW w \in Workers, NEW refused, C!FindStatus(w, refused) PROVE marred = {} /\ Size <= Size'
    <2>1. work[w].at # "free" /\ (\E id : MovesWith(w, "mark", id)) /\ marred = {} /\ UNCHANGED notes
      BY <1>4 DEF C!FindStatus, MovesWith
    <2>2. Only(w) /\ work'[w].at # "delete"
      BY <2>1, Moves DEF Moved
    <2> QED
      BY <1>0, <1>same, <2>1, <2>2, RoomKept
  <1>5. ASSUME NEW w \in Workers, NEW refused, C!FindMark(w, refused) PROVE marred = {} /\ Size <= Size'
    <2>1. /\ work[w].at # "free" /\ (C!Ends(w) \/ \E id : MovesWith(w, "unmark", id))
          /\ marred = {} /\ UNCHANGED notes
      BY <1>5 DEF C!FindMark, MovesWith
    <2>2. Only(w) /\ work'[w].at # "delete"
      BY <1>free, <2>1, Moves DEF Moved
    <2> QED
      BY <1>0, <1>same, <2>1, <2>2, RoomKept
  <1>6. ASSUME NEW w \in Workers, NEW refused, C!SetPaused(w, refused) PROVE marred = {} /\ Size <= Size'
    <2>1. C!Ends(w) /\ marred = {}
      BY <1>6 DEF C!SetPaused
    <2>2. UNCHANGED notes \/ (\E to : Written(to)) \/ \E id, to : C!Rewrite(id, to)
      BY <1>6, Zenon DEF C!SetPaused, C!Create, Written
    <2>3. Ids(notes) \subseteq Ids(notes')
      <3>1. CASE UNCHANGED notes
        BY <1>same, <3>1
      <3>2. CASE \E to : Written(to)
        BY <1>0, <3>2, NewId
      <3>3. CASE \E id, to : C!Rewrite(id, to)
        BY <1>0, <3>3, NoteRewritten DEF Ids
      <3> QED
        BY <2>2, <3>1, <3>2, <3>3
    <2> QED
      BY <1>0, <1>free, <2>1, <2>3, RoomKept
  <1>7. ASSUME NEW w \in Workers, NEW refused, C!FindLast(w, refused) PROVE marred = {} /\ Size <= Size'
    <2>1. /\ work[w].at # "free" /\ marred = {} /\ UNCHANGED notes
          /\ C!Ends(w) \/ MovesTo(w, "create") \/ \E id, was : MovesOver(w, "create", id, was)
      BY <1>7 DEF C!FindLast, MovesTo, MovesOver
    <2>2. Only(w) /\ work'[w].at # "delete"
      BY <1>free, <2>1, Moves DEF Moved
    <2> QED
      BY <1>0, <1>same, <2>1, <2>2, RoomKept
  <1>8. ASSUME NEW w \in Workers, NEW refused, C!CreateComment(w, refused) PROVE marred = {} /\ Size <= Size'
    <2>1. /\ work[w].at = "create" /\ refused = {} /\ marred = {}
          /\ Written(work[w].text)
          /\ C!Ends(w) \/ MovesTo(w, "delete")
      <3>1. refused = {} /\ marred = {} /\ work[w].at = "create"
        BY <1>8 DEF C!CreateComment
      <3> QED
        BY <1>8, <3>1 DEF C!CreateComment, C!Create, C!Goes, Written, MovesTo
    <2>2. Ids(notes') = Ids(notes) \cup {next} /\ next \notin Ids(notes)
      BY <1>0, <2>1, NewId
    <2>3. CASE C!Ends(w)
      BY <1>0, <1>free, <2>1, <2>2, <2>3, RoomKept
    <2>4. CASE MovesTo(w, "delete")
      <3> DEFINE id == work[w].note
      <3>1. Only(w) /\ work'[w].note = id
        BY <2>1, <2>4, Moves DEF Moved
      <3>2. Going' \subseteq Going \cup {id}
        BY <3>1 DEF Going, Only
      <3>3. next \notin Going'
        <4>1. \A v \in Workers : work'[v].at = "delete" => work'[v].note < next
          <5>1. \A v \in Workers : work[v].at = "delete" => work[v].note < next
            BY JobAt
          <5>2. id < next
            BY <2>1, JobAt
          <5> QED
            BY <3>1, <5>1, <5>2 DEF Only
        <4>2. ~(next < next)
          BY <1>0 DEF NotesOK
        <4> QED
          BY <4>1, <4>2 DEF Going
      <3> HIDE DEF id
      <3> DEFINE stay == Left \ {id}
      <3>4. stay \cup {next} \subseteq Left'
        BY <2>2, <3>2, <3>3 DEF Left
      <3>5. IsFiniteSet(Left) /\ Size \in Nat /\ IsFiniteSet(Left') /\ Size' \in Nat
        BY <1>0, SizeCounts DEF NotesOK, Left, Size
      <3>6. IsFiniteSet(stay) /\ Cardinality(stay) >= Size - 1 /\ next \notin stay
        <4> DEFINE all == Left
        <4>1. IsFiniteSet(all) /\ Cardinality(all) = Size
          BY <3>5 DEF Size
        <4>2. next \notin all
          BY <2>2 DEF Left
        <4> HIDE DEF all
        <4>3. IsFiniteSet(all \ {id}) /\ (Cardinality(all \ {id}) = Cardinality(all) \/ Cardinality(all \ {id}) = Cardinality(all) - 1)
          BY <4>1, FS_RemoveElement, Zenon
        <4>4. Cardinality(all \ {id}) >= Size - 1
          BY <3>5, <4>1, <4>3
        <4> QED
          BY <4>2, <4>3, <4>4 DEF all
      <3> HIDE DEF stay
      <3>7. Cardinality(stay) \in Nat /\ Cardinality(stay \cup {next}) = Cardinality(stay) + 1
        BY <3>6, FS_AddElement, FS_CardinalityType
      <3>8. Cardinality(stay \cup {next}) <= Size'
        BY <3>4, <3>5, FS_Subset DEF Size
      <3>9. Size <= Size'
        BY <3>5, <3>6, <3>7, <3>8
      <3> QED
        BY <2>1, <3>9
    <2> QED
      BY <2>1, <2>3, <2>4
  <1>9. ASSUME NEW w \in Workers, NEW refused, C!DeleteComment(w, refused) PROVE marred = {} /\ Size <= Size'
    <2>1. /\ work[w].at = "delete" /\ marred = {} /\ notes' = {n \in notes : n.id # work[w].note}
          /\ C!Ends(w)
      <3>1. refused = {} /\ marred = {}
        BY <1>9 DEF C!DeleteComment
      <3> QED
        BY <1>9, <3>1 DEF C!DeleteComment
    <2>2. Ids(notes') = Ids(notes) \ {work[w].note}
      BY <2>1 DEF Ids
    <2> QED
      BY <1>0, <1>free, <2>1, <2>2, RoomKept
  <1> QED
    BY <1>1, <1>2, <1>3, <1>4, <1>5, <1>6, <1>7, <1>8, <1>9 DEF C!Next

(* The status comments among these, and those with the mark.                *)
Marks(ns) == {n \in ns : n.says # "chat"}
Pauses(ns) == {n \in ns : n.says = "paused"}

\* The comment with this id is the newest status comment.
Top(id, ns) == \E s \in Marks(ns) : s.id = id /\ \A t \in Marks(ns) : t.id <= id

(* What a job knows of the comments ns is so.                               *)
JobSound(j, ns) ==
  /\ j.at \in {"skip?", "pause", "resume", "say"} => j.note = 0 /\ j.was = "none"
  /\ j.at \in {"mark", "create"} => (j.note = 0 /\ Marks(ns) = {}) \/ (j.note # 0 /\ Top(j.note, ns))
  /\ j.at = "create" => \A n \in ns : n.id = j.note => n.says = j.was
  /\ j.at = "unmark" => j.note # 0 /\ \E p \in Pauses(ns) : p.id = j.note
  /\ j.at = "delete" => \A n \in ns : n.id = j.note => n.says # "paused"

(* The mark is on the newest status comment or on none, and it is there if  *)
(* and only if that was asked.                                              *)
MarksSound(ns, wanted) ==
  /\ (Pauses(ns) # {}) <=> wanted
  /\ \A p \in Pauses(ns), s \in Marks(ns) : s.id <= p.id

\* There is one status comment, but for the one that is about to go.
OneStatus(j, ns) == \A s, t \in Marks(ns) : s = t \/ (j.at = "delete" /\ j.note \in {s.id, t.id})

(* While nothing has marred the mark, one job runs at a time.               *)
PauseInv ==
  Known => /\ \A v, w \in Workers : work[v] # C!Free /\ work[w] # C!Free => v = w
           /\ reviewed = 0 /\ MarksSound(notes, asked)
           /\ \A w \in Workers : JobSound(work[w], notes)
           /\ host = "github" => \A s, t \in Marks(notes) :
                s = t \/ \E w \in Workers : work[w].at = "delete" /\ work[w].note \in {s.id, t.id}

\* A free worker plans nothing.
LEMMA FreeSound ==
  ASSUME NEW ns
  PROVE  JobSound(C!Free, ns)
  BY DEF JobSound, C!Free

(* A step of the one worker that has a job.                                 *)
LEMMA PauseOn ==
  ASSUME Known', NEW w \in Workers, \A v \in Workers \ {w} : work'[v] = C!Free,
         reviewed' = 0, MarksSound(notes', asked'), JobSound(work'[w], notes'),
         host' = "github" => OneStatus(work'[w], notes')
  PROVE  PauseInv'
  <1>1. ASSUME NEW v \in Workers, NEW u \in Workers, work'[v] # C!Free, work'[u] # C!Free PROVE v = u
    BY <1>1
  <1>2. ASSUME NEW v \in Workers PROVE JobSound(work'[v], notes')
    <2>1. v # w => work'[v] = C!Free
      OBVIOUS
    <2> QED
      BY <2>1, FreeSound
  <1>3. ASSUME host' = "github", NEW s \in Marks(notes'), NEW t \in Marks(notes')
        PROVE  s = t \/ \E v \in Workers : work'[v].at = "delete" /\ work'[v].note \in {s.id, t.id}
    BY <1>3 DEF OneStatus
  <1> QED
    BY <1>1, <1>2, <1>3 DEF PauseInv

(* A worker with a job has the pull request to itself, and finds what is    *)
(* there.                                                                   *)
LEMMA HasItAlone ==
  ASSUME C!CommandsAssumption, PauseShape, PauseInv, Known, NEW w \in Workers, work[w].at # "free"
  PROVE  /\ \A v \in Workers \ {w} : work[v] = C!Free
         /\ reviewed = 0 /\ MarksSound(notes, asked) /\ JobSound(work[w], notes)
         /\ host = "github" => OneStatus(work[w], notes)
         /\ work[w].at # "delete" =>
              \A marked \in SUBSET notes : C!FindComment(marked, {}) = Newest(marked)
  <1>1. \A v \in Workers \ {w} : work[v] = C!Free
    BY JobAt DEF PauseInv
  <1>2. host = "github" => OneStatus(work[w], notes)
    <2>1. \A v \in Workers : work[v].at = "delete" => v = w
      BY <1>1 DEF C!Free
    <2> QED
      BY <2>1 DEF PauseInv, OneStatus
  <1>3. ASSUME work[w].at # "delete", NEW marked \in SUBSET notes PROVE C!FindComment(marked, {}) = Newest(marked)
    <2>1. Going = {}
      BY <1>1, <1>3 DEF Going, C!Free
    <2>2. Left = Ids(notes)
      BY <2>1 DEF Left
    <2>3. Cardinality(notes) <= StatusPage /\ NotesOK
      BY <2>2, IdsCount DEF Known, Size, PauseShape, NotesOK
    <2> QED
      BY <2>3, FindsNewest
  <1> QED
    BY <1>1, <1>2, <1>3 DEF PauseInv

\* The newest of the marks is the highest.
LEMMA NewestIsTop ==
  ASSUME NotesOK, NEW found, found = Newest(Marks(notes)), found # {}
  PROVE  /\ C!The(found) \in notes /\ C!The(found).id # 0 /\ Top(C!The(found).id, notes)
  <1>1. Marks(notes) \subseteq notes /\ Marks(notes) # {}
    BY DEF Marks, Newest
  <1>2. PICK m \in Marks(notes) : found = {m} /\ C!The(found) = m
    BY <1>1, NewestThere
  <1>3. \A t \in Marks(notes) : t.id <= m.id
    BY <1>2 DEF Newest
  <1> QED
    BY <1>1, <1>2, <1>3 DEF Top, NotesOK

(* The mark is put on the newest status comment.                            *)
LEMMA MarkIsPut ==
  ASSUME NotesOK, NEW id, Top(id, notes), MarksSound(notes, asked), C!Rewrite(id, "paused")
  PROVE  /\ MarksSound(notes', TRUE)
         /\ (\A s, t \in Marks(notes) : s = t) => \A s, t \in Marks(notes') : s = t
  <1>1. /\ NotesOK' /\ {n.id : n \in notes'} = {n.id : n \in notes}
        /\ \A m \in notes' : IF m.id = id THEN m.says = "paused" ELSE m \in notes
    BY NoteRewritten
  <1>2. PICK s \in Marks(notes) : s.id = id /\ \A t \in Marks(notes) : t.id <= id
    BY DEF Top
  <1>3. PICK k \in notes' : k.id = id /\ k.says = "paused"
    BY <1>1, <1>2 DEF Marks
  <1>4. ASSUME NEW p \in Pauses(notes') PROVE p.id = id
    <2>1. p.id # id => p \in notes /\ p.says = "paused"
      BY <1>1 DEF Pauses
    <2>2. p.id # id => p \in Pauses(notes) /\ p \in Marks(notes)
      BY <2>1 DEF Pauses, Marks
    <2>3. p.id # id => s.id <= p.id /\ p.id <= id
      BY <1>2, <2>2 DEF MarksSound
    <2>4. p.id \in Nat /\ s.id \in Nat
      BY <1>1 DEF NotesOK, Pauses, Marks
    <2> QED
      BY <1>2, <2>3, <2>4
  <1>5. ASSUME NEW t \in Marks(notes') PROVE t.id <= id /\ (t.id = id \/ t \in Marks(notes))
    <2>1. t.id = id \/ t \in Marks(notes)
      BY <1>1 DEF Marks
    <2>2. id \in Nat
      BY <1>2 DEF NotesOK, Marks
    <2> QED
      BY <1>2, <2>1, <2>2
  <1>6. MarksSound(notes', TRUE)
    BY <1>3, <1>4, <1>5 DEF MarksSound, Pauses
  <1>7. ASSUME \A a, b \in Marks(notes) : a = b, NEW t \in Marks(notes'), NEW u \in Marks(notes') PROVE t = u
    <2>1. t.id = id /\ u.id = id
      BY <1>2, <1>5, <1>7
    <2> QED
      BY <1>1, <2>1 DEF NotesOK, Marks
  <1> QED
    BY <1>6, <1>7

(* The mark is taken out of the comment that has it.                        *)
LEMMA MarkIsTaken ==
  ASSUME NotesOK, NEW id, \E p \in Pauses(notes) : p.id = id, MarksSound(notes, asked), C!Rewrite(id, "active")
  PROVE  /\ MarksSound(notes', FALSE)
         /\ (\A s, t \in Marks(notes) : s = t) => \A s, t \in Marks(notes') : s = t
  <1>1. /\ NotesOK' /\ \A m \in notes' : IF m.id = id THEN m.says = "active" ELSE m \in notes
    BY NoteRewritten
  <1>2. PICK p \in Pauses(notes) : p.id = id
    OBVIOUS
  <1>3. p \in Marks(notes) /\ p.id \in Nat
    BY DEF Pauses, Marks, NotesOK
  <1>4. ASSUME NEW q \in Pauses(notes') PROVE FALSE
    <2>1. q.id # id /\ q \in notes /\ q.says = "paused"
      BY <1>1 DEF Pauses
    <2>2. q \in Pauses(notes) /\ q \in Marks(notes) /\ q.id \in Nat
      BY <2>1 DEF Pauses, Marks, NotesOK
    <2>3. q.id <= p.id /\ p.id <= q.id
      BY <1>3, <2>2 DEF MarksSound
    <2> QED
      BY <1>2, <1>3, <2>1, <2>2, <2>3
  <1>5. MarksSound(notes', FALSE)
    BY <1>4 DEF MarksSound
  <1>6. ASSUME \A a, b \in Marks(notes) : a = b, NEW t \in Marks(notes'), NEW u \in Marks(notes') PROVE t = u
    <2>1. \A m \in Marks(notes') : m.id = id
      <3> SUFFICES ASSUME NEW m \in Marks(notes'), m.id # id PROVE FALSE
        OBVIOUS
      <3>1. m \in Marks(notes)
        BY <1>1 DEF Marks
      <3> QED
        BY <1>2, <1>3, <1>6, <3>1
    <2> QED
      BY <1>1, <2>1 DEF NotesOK, Marks
  <1> QED
    BY <1>5, <1>6

(* No newest comment has the mark: none has it.                             *)
LEMMA NoneNewest ==
  ASSUME NotesOK
  PROVE  /\ Newest(Marks(notes)) = {} => Marks(notes) = {}
         /\ Newest(Pauses(notes)) = {} => Pauses(notes) = {}
  <1>1. Marks(notes) \subseteq notes /\ Pauses(notes) \subseteq notes
    BY DEF Marks, Pauses
  <1>2. ASSUME NEW marked, marked \subseteq notes, Newest(marked) = {} PROVE marked = {}
    <2> SUFFICES ASSUME marked # {} PROVE FALSE
      OBVIOUS
    <2>1. PICK m \in marked : Newest(marked) = {m}
      BY <1>2, NewestThere
    <2> QED
      BY <1>2, <2>1
  <1> QED
    BY <1>1, <1>2

(* A new comment is the newest.                                             *)
LEMMA StatusIsNew ==
  ASSUME NotesOK, NEW says, says # "chat", Written(says)
  PROVE  \E new : /\ Marks(notes') = Marks(notes) \cup {new} /\ new.id = next /\ new.says = says
                  /\ Pauses(notes') = IF says = "paused" THEN Pauses(notes) \cup {new} ELSE Pauses(notes)
                  /\ notes' = notes \cup {new}
  <1> DEFINE new == [id |-> next, says |-> says]
  <1>1. new.id = next /\ new.says = says /\ notes' = notes \cup {new}
    BY DEF Written
  <1> HIDE DEF new
  <1>2. Marks(notes') = Marks(notes) \cup {new}
    BY <1>1 DEF Marks
  <1>3. Pauses(notes') = IF says = "paused" THEN Pauses(notes) \cup {new} ELSE Pauses(notes)
    BY <1>1 DEF Pauses
  <1> QED
    BY <1>1, <1>2, <1>3

\* At the start nobody asked and nothing is marked,
LEMMA PauseHoldsFirst ==
  ASSUME C!Init
  PROVE  PauseInv
  <1>1. notes = {} /\ reviewed = 0 /\ asked = FALSE /\ \A w \in Workers : work[w] = C!Free
    BY DEF C!Init
  <1>2. Marks(notes) = {} /\ Pauses(notes) = {}
    BY <1>1 DEF Marks, Pauses
  <1> QED
    BY <1>1, <1>2, FreeSound DEF PauseInv, MarksSound

\* and every step keeps the mark, or what a worker is about to make of it, as asked.
LEMMA PauseStays ==
  ASSUME C!CommandsAssumption, PauseShape, PauseShape', PauseInv, [C!Next]_(C!vars)
  PROVE  PauseInv'
  <1>1. CASE UNCHANGED C!vars
    BY <1>1 DEF C!vars, PauseInv, Known, Size, Left, Going, Ids, MarksSound, Marks, Pauses, JobSound, Top
  <1> SUFFICES ASSUME C!Next, Known' PROVE PauseInv'
    BY <1>1 DEF PauseInv
  <1>0. NotesOK /\ NotesOK' /\ next \in Nat
    BY DEF PauseShape, NotesOK
  <1>known. Known
    <2>1. marred = {} /\ Size <= Size' /\ Size' <= StatusPage
      BY RoomGrows DEF Known
    <2>2. Size \in Nat /\ Size' \in Nat /\ StatusPage \in Nat
      BY <1>0, SizeCounts DEF NotesOK, Left, Size, C!CommandsAssumption
    <2> QED
      BY <2>1, <2>2 DEF Known
  <1>alone. ASSUME NEW w \in Workers, work[w].at # "free", Only(w) PROVE \A v \in Workers \ {w} : work'[v] = C!Free
    BY <1>alone, <1>known, HasItAlone DEF Only
  <1>free. ASSUME NEW w \in Workers, C!Ends(w) PROVE Only(w) /\ work'[w] = C!Free /\ work'[w].at = "free"
    <2>1. Only(w) /\ work'[w] = C!Free
      BY <1>free, Changes DEF C!Ends
    <2> QED
      BY <2>1 DEF C!Free
  <1>status. C!Status = Marks(notes) /\ C!Paused = Pauses(notes) /\ Marks(notes) \in SUBSET notes /\ Pauses(notes) \in SUBSET notes
    BY DEF C!Status, C!Paused, Marks, Pauses
  <1>2. CASE C!Chat
    <2>1. /\ Written("chat") /\ work' = work /\ reviewed' = reviewed /\ asked' = asked /\ host' = host
      BY <1>2 DEF C!Chat, Written
    <2> DEFINE new == [id |-> next, says |-> "chat"]
    <2>2. notes' = notes \cup {new} /\ new.says = "chat"
      BY <2>1 DEF Written
    <2> HIDE DEF new
    <2>3. Marks(notes') = Marks(notes) /\ Pauses(notes') = Pauses(notes)
      BY <2>2 DEF Marks, Pauses
    <2>4. ASSUME NEW w \in Workers PROVE JobSound(work'[w], notes')
      <3>1. JobSound(work[w], notes)
        BY <1>known DEF PauseInv
      <3>2. work[w].at = "create" => \A n \in notes' : n.id = work[w].note => n.says = work[w].was
        <4> SUFFICES ASSUME work[w].at = "create" PROVE new.id # work[w].note
          BY <2>2, <3>1 DEF JobSound
        <4>1. new.id = next /\ work[w].note < next /\ work[w].note \in Nat
          BY JobAt DEF new
        <4> QED
          BY <1>0, <4>1
      <3> QED
        BY <2>1, <2>2, <2>3, <3>1, <3>2 DEF JobSound, Top
    <2> QED
      BY <1>known, <2>1, <2>3, <2>4 DEF PauseInv, MarksSound
  <1>3. ASSUME NEW w \in Workers, NEW command \in CommandNames, NEW author \in Authors, NEW gate \in Gates,
               C!Take(w, command, author, gate)
        PROVE  PauseInv'
    <2>1. /\ work[w] = C!Free /\ ~C!Busy(w)
          /\ notes' = notes /\ reviewed' = reviewed /\ asked' = asked /\ host' = host
      BY <1>3 DEF C!Take, Known
    <2>2. \A v \in Workers : work[v] = C!Free
      BY <2>1 DEF C!Busy
    <2>3. \A v \in Workers \ {w} : work'[v] = C!Free
      BY <1>3, <2>2, TakesJob DEF Only
    <2>4. JobSound(work'[w], notes')
      <3>1. CASE work' = work
        BY <2>1, <3>1, FreeSound
      <3>2. CASE work' # work
        <4>1. work'[w].at \in {"skip?", "pause", "resume", "say"} /\ work'[w].note = 0 /\ work'[w].was = "none"
          BY <1>3, <3>2, TakesJob
        <4> QED
          BY <4>1 DEF JobSound
      <3> QED
        BY <3>1, <3>2
    <2>5. host = "github" => OneStatus(work'[w], notes')
      <3>1. \A v \in Workers : work[v].at # "delete"
        BY <2>2 DEF C!Free
      <3> QED
        BY <1>known, <2>1, <3>1 DEF PauseInv, OneStatus
    <2> QED
      BY <1>known, <2>1, <2>3, <2>4, <2>5, PauseOn DEF PauseInv
  <1>4. ASSUME NEW w \in Workers, NEW refused, C!ShouldSkipAutomatic(w, refused) PROVE PauseInv'
    <2>1. /\ work[w].at = "skip?" /\ C!Ends(w) /\ refused = {}
          /\ reviewed' = IF C!FindComment(C!Paused, refused) = {} /\ asked THEN reviewed + 1 ELSE reviewed
          /\ notes' = notes /\ asked' = asked /\ host' = host
      BY <1>4 DEF C!ShouldSkipAutomatic, Known
    <2>2. /\ reviewed = 0 /\ MarksSound(notes, asked) /\ (host = "github" => OneStatus(work[w], notes))
          /\ C!FindComment(Pauses(notes), {}) = Newest(Pauses(notes))
      BY <1>known, <1>status, <2>1, HasItAlone
    <2>3. asked => Newest(Pauses(notes)) # {}
      BY <1>0, <1>status, <2>2, NewestThere DEF MarksSound
    <2>4. reviewed' = 0
      BY <1>status, <2>1, <2>2, <2>3
    <2>5. host = "github" => OneStatus(work'[w], notes')
      BY <2>1, <2>2 DEF OneStatus
    <2> QED
      BY <1>free, <1>alone, <2>1, <2>2, <2>4, <2>5, PauseOn, FreeSound
  <1>5. ASSUME NEW w \in Workers, NEW refused, C!FindStatus(w, refused) PROVE PauseInv'
    <2> DEFINE found == C!FindComment(C!Status, refused)
    <2> DEFINE id == IF found = {} THEN 0 ELSE C!The(found).id
    <2>1. /\ work[w].at = "pause" /\ MovesWith(w, "mark", id) /\ refused = {}
          /\ notes' = notes /\ asked' = asked /\ host' = host /\ reviewed' = reviewed
      BY <1>5 DEF C!FindStatus, MovesWith, Known
    <2>2. /\ reviewed = 0 /\ MarksSound(notes, asked) /\ (host = "github" => OneStatus(work[w], notes))
          /\ found = Newest(Marks(notes))
      BY <1>known, <1>status, <2>1, HasItAlone
    <2>3. (id = 0 /\ Marks(notes) = {}) \/ (id # 0 /\ Top(id, notes))
      <3>1. CASE found = {}
        BY <1>0, <2>2, <3>1, NoneNewest
      <3>2. CASE found # {}
        BY <1>0, <2>2, <3>2, NewestIsTop
      <3> QED
        BY <3>1, <3>2
    <2> HIDE DEF id, found
    <2>4. Only(w) /\ work'[w].at = "mark" /\ work'[w].note = id
      BY <2>1, Moves DEF Moved
    <2>5. JobSound(work'[w], notes')
      BY <2>1, <2>3, <2>4 DEF JobSound
    <2>6. host = "github" => OneStatus(work'[w], notes')
      BY <2>1, <2>2 DEF OneStatus
    <2>7. \A v \in Workers \ {w} : work'[v] = C!Free
      BY <1>alone, <2>1, <2>4
    <2> QED
      BY <2>1, <2>2, <2>5, <2>6, <2>7, PauseOn
  <1>6. ASSUME NEW w \in Workers, NEW refused, C!FindMark(w, refused) PROVE PauseInv'
    <2> DEFINE found == C!FindComment(C!Paused, refused)
    <2> DEFINE id == C!The(found).id
    <2>1. /\ work[w].at = "resume" /\ refused = {}
          /\ IF found = {} THEN C!Ends(w) /\ asked' = FALSE ELSE MovesWith(w, "unmark", id) /\ asked' = asked
          /\ notes' = notes /\ host' = host /\ reviewed' = reviewed
      BY <1>6 DEF C!FindMark, MovesWith, Known
    <2>2. /\ reviewed = 0 /\ MarksSound(notes, asked) /\ (host = "github" => OneStatus(work[w], notes))
          /\ found = Newest(Pauses(notes))
      BY <1>known, <1>status, <2>1, HasItAlone
    <2>3. found = {} => Pauses(notes) = {}
      BY <1>0, <2>2, NoneNewest
    <2>4. found # {} => id # 0 /\ \E p \in Pauses(notes) : p.id = id
      <3> SUFFICES ASSUME found # {} PROVE id # 0 /\ \E p \in Pauses(notes) : p.id = id
        OBVIOUS
      <3>1. Pauses(notes) # {}
        BY <2>2 DEF Newest
      <3>2. PICK m \in Pauses(notes) : C!The(found) = m
        BY <1>0, <1>status, <2>2, <3>1, NewestThere
      <3> QED
        BY <1>0, <1>status, <3>2 DEF NotesOK
    <2> HIDE DEF found, id
    <2>5. CASE found = {}
      <3>1. MarksSound(notes', asked')
        BY <2>1, <2>2, <2>3, <2>5 DEF MarksSound
      <3>2. host = "github" => OneStatus(work'[w], notes')
        BY <2>1, <2>2 DEF OneStatus
      <3> QED
        BY <1>free, <1>alone, <2>1, <2>2, <2>5, <3>1, <3>2, PauseOn, FreeSound
    <2>6. CASE found # {}
      <3>1. Only(w) /\ work'[w].at = "unmark" /\ work'[w].note = id
        BY <2>1, <2>6, Moves DEF Moved
      <3>2. JobSound(work'[w], notes')
        BY <2>1, <2>4, <2>6, <3>1 DEF JobSound
      <3>3. host = "github" => OneStatus(work'[w], notes')
        BY <2>1, <2>2 DEF OneStatus
      <3>4. \A v \in Workers \ {w} : work'[v] = C!Free
        BY <1>alone, <2>1, <3>1
      <3> QED
        BY <2>1, <2>2, <2>6, <3>2, <3>3, <3>4, PauseOn
    <2> QED
      BY <2>5, <2>6
  <1>7. ASSUME NEW w \in Workers, NEW refused, C!SetPaused(w, refused) PROVE PauseInv'
    <2> DEFINE id == work[w].note
    <2>1. /\ work[w].at \in {"mark", "unmark"} /\ C!Ends(w) /\ refused = {} /\ host' = host /\ reviewed' = reviewed
      BY <1>7 DEF C!SetPaused, Known
    <2>2. /\ reviewed = 0 /\ MarksSound(notes, asked) /\ (host = "github" => OneStatus(work[w], notes))
          /\ JobSound(work[w], notes)
      BY <1>known, <2>1, HasItAlone
    <2>3. host = "github" => \A s, t \in Marks(notes) : s = t
      BY <2>1, <2>2 DEF OneStatus
    <2>4. ASSUME MarksSound(notes', asked'), (\A s, t \in Marks(notes) : s = t) => \A s, t \in Marks(notes') : s = t
          PROVE  PauseInv'
      <3>1. host = "github" => OneStatus(work'[w], notes')
        BY <2>3, <2>4 DEF OneStatus
      <3> QED
        BY <1>free, <1>alone, <2>1, <2>2, <2>4, <3>1, PauseOn, FreeSound
    <2>5. CASE work[w].at = "mark" /\ id = 0
      <3>1. Written("paused") /\ asked' = TRUE
        BY <1>7, <2>1, <2>5 DEF C!SetPaused, C!Create, Written
      <3>2. Marks(notes) = {} /\ Pauses(notes) = {}
        BY <2>2, <2>5 DEF JobSound, Marks, Pauses
      <3>3. PICK new : Marks(notes') = Marks(notes) \cup {new} /\ Pauses(notes') = Pauses(notes) \cup {new} /\ new.id = next
        BY <1>0, <3>1, StatusIsNew
      <3>4. MarksSound(notes', asked')
        BY <1>0, <3>1, <3>2, <3>3 DEF MarksSound
      <3> QED
        BY <2>4, <3>2, <3>3, <3>4
    <2>6. CASE work[w].at = "mark" /\ id # 0
      <3>1. Top(id, notes)
        BY <2>2, <2>6 DEF JobSound
      <3>2. C!Holds(id)
        BY <3>1 DEF C!Holds, Top, Marks
      <3>3. C!Rewrite(id, "paused") /\ asked' = TRUE
        BY <1>7, <2>1, <2>6, <3>2 DEF C!SetPaused
      <3> HIDE DEF id
      <3>4. MarksSound(notes', asked')
        BY <1>0, <2>2, <3>1, <3>3, MarkIsPut
      <3> QED
        BY <1>0, <2>2, <2>4, <3>1, <3>3, <3>4, MarkIsPut
    <2>7. CASE work[w].at = "unmark"
      <3>1. id # 0 /\ \E p \in Pauses(notes) : p.id = id
        BY <2>2, <2>7 DEF JobSound
      <3>2. C!Holds(id)
        BY <3>1 DEF C!Holds, Pauses
      <3>3. C!Rewrite(id, "active") /\ asked' = FALSE
        BY <1>7, <2>1, <2>7, <3>1, <3>2 DEF C!SetPaused
      <3> HIDE DEF id
      <3>4. MarksSound(notes', asked')
        BY <1>0, <2>2, <3>1, <3>3, MarkIsTaken
      <3> QED
        BY <1>0, <2>2, <2>4, <3>1, <3>3, <3>4, MarkIsTaken
    <2> QED
      BY <2>1, <2>5, <2>6, <2>7
  <1>8. ASSUME NEW w \in Workers, NEW refused, C!FindLast(w, refused) PROVE PauseInv'
    <2> DEFINE found == C!FindComment(C!Status, refused)
    <2> DEFINE id == C!The(found).id
    <2> DEFINE was == C!The(found).says
    <2>1. /\ work[w].at = "say" /\ refused = {}
          /\ \/ C!Ends(w)
             \/ found = {} /\ MovesTo(w, "create")
             \/ found # {} /\ MovesOver(w, "create", id, was)
          /\ notes' = notes /\ host' = host /\ reviewed' = reviewed /\ asked' = asked
      BY <1>8 DEF C!FindLast, MovesTo, MovesOver, Known
    <2>2. /\ reviewed = 0 /\ MarksSound(notes, asked) /\ (host = "github" => OneStatus(work[w], notes))
          /\ found = Newest(Marks(notes)) /\ JobSound(work[w], notes)
      BY <1>known, <1>status, <2>1, HasItAlone
    <2>3. found = {} => Marks(notes) = {}
      BY <1>0, <2>2, NoneNewest
    <2>4. found # {} => id # 0 /\ Top(id, notes) /\ \A n \in notes : n.id = id => n.says = was
      BY <1>0, <2>2, NewestIsTop DEF NotesOK
    <2> HIDE DEF found, id, was
    <2>5. host = "github" => OneStatus(work'[w], notes')
      BY <2>1, <2>2 DEF OneStatus
    <2>6. CASE C!Ends(w)
      BY <1>free, <1>alone, <2>1, <2>2, <2>5, <2>6, PauseOn, FreeSound
    <2>7. CASE found = {} /\ MovesTo(w, "create")
      <3>1. Only(w) /\ work'[w].at = "create" /\ work'[w].note = 0
        BY <2>1, <2>2, <2>7, Moves DEF Moved, JobSound
      <3>2. \A n \in notes : n.id # 0
        BY <1>0 DEF NotesOK
      <3>3. JobSound(work'[w], notes')
        BY <2>1, <2>3, <2>7, <3>1, <3>2 DEF JobSound
      <3>4. \A v \in Workers \ {w} : work'[v] = C!Free
        BY <1>alone, <2>1, <3>1
      <3> QED
        BY <2>1, <2>2, <2>5, <3>3, <3>4, PauseOn
    <2>8. CASE found # {} /\ MovesOver(w, "create", id, was)
      <3>1. Only(w) /\ work'[w].at = "create" /\ work'[w].note = id /\ work'[w].was = was
        BY <2>1, <2>8, Moves DEF Moved
      <3>2. JobSound(work'[w], notes')
        BY <2>1, <2>4, <2>8, <3>1 DEF JobSound
      <3>3. \A v \in Workers \ {w} : work'[v] = C!Free
        BY <1>alone, <2>1, <3>1
      <3> QED
        BY <2>1, <2>2, <2>5, <3>2, <3>3, PauseOn
    <2> QED
      BY <2>1, <2>6, <2>7, <2>8
  <1>9. ASSUME NEW w \in Workers, NEW refused, C!CreateComment(w, refused) PROVE PauseInv'
    <2> DEFINE id == work[w].note
    <2>1. /\ work[w].at = "create" /\ refused = {} /\ work[w].was # "paused"
          /\ Written(work[w].text) /\ host' = host /\ reviewed' = reviewed /\ asked' = asked
          /\ IF id # 0 /\ C!DeletesComments THEN MovesTo(w, "delete") ELSE C!Ends(w)
      <3>1. refused = {} /\ work[w].was # "paused" /\ work[w].at = "create"
        BY <1>9 DEF C!CreateComment, Known
      <3> QED
        BY <1>9, <3>1 DEF C!CreateComment, C!Create, C!Goes, Written, MovesTo
    <2>2. /\ reviewed = 0 /\ MarksSound(notes, asked) /\ (host = "github" => OneStatus(work[w], notes))
          /\ JobSound(work[w], notes) /\ work[w].text \notin {"chat", "paused"} /\ id < next /\ id \in Nat
      BY <1>known, <2>1, HasItAlone, JobAt
    <2>3. PICK new : /\ Marks(notes') = Marks(notes) \cup {new} /\ new.id = next /\ new.says # "paused"
                     /\ Pauses(notes') = Pauses(notes) /\ notes' = notes \cup {new}
      <3>1. PICK says : says = work[w].text
        OBVIOUS
      <3>2. Written(says) /\ says # "chat" /\ says # "paused"
        BY <2>1, <2>2, <3>1
      <3>3. PICK new : /\ Marks(notes') = Marks(notes) \cup {new} /\ new.id = next /\ new.says = says
                       /\ Pauses(notes') = IF says = "paused" THEN Pauses(notes) \cup {new} ELSE Pauses(notes)
                       /\ notes' = notes \cup {new}
        BY <1>0, <3>2, StatusIsNew
      <3> QED
        BY <3>2, <3>3
    <2>4. Pauses(notes) = {}
      <3> SUFFICES ASSUME NEW p \in Pauses(notes) PROVE FALSE
        OBVIOUS
      <3>1. p \in Marks(notes) /\ p.says = "paused"
        BY DEF Pauses, Marks
      <3>2. PICK s \in Marks(notes) : s.id = id /\ \A t \in Marks(notes) : t.id <= id
        BY <2>1, <2>2, <3>1 DEF JobSound, Top
      <3>3. s.id <= p.id /\ p.id <= s.id /\ p \in notes /\ s \in notes
        BY <2>2, <3>1, <3>2 DEF MarksSound, Marks
      <3>4. p = s
        BY <1>0, <3>3 DEF NotesOK
      <3> QED
        BY <2>1, <2>2, <3>1, <3>2, <3>3, <3>4 DEF JobSound
    <2>5. MarksSound(notes', asked')
      BY <2>1, <2>2, <2>3, <2>4 DEF MarksSound
    <2>6. host = "github" => C!DeletesComments
      BY DEF C!DeletesComments, C!GitHub!DeletesComments
    <2>7. CASE C!Ends(w)
      <3>1. CASE host = "github"
        <4>1. id = 0 \/ MovesTo(w, "delete")
          BY <2>1, <2>6, <3>1
        <4>2. CASE id = 0
          <5>1. Marks(notes) = {}
            BY <2>1, <2>2, <4>2 DEF JobSound
          <5>2. OneStatus(work'[w], notes')
            BY <2>3, <5>1 DEF OneStatus
          <5> QED
            BY <1>free, <1>alone, <2>1, <2>2, <2>5, <2>7, <5>2, PauseOn, FreeSound
        <4>3. CASE MovesTo(w, "delete")
          BY <1>free, <2>1, <2>7, <4>3, Moves DEF Moved
        <4> QED
          BY <4>1, <4>2, <4>3
      <3>2. CASE host # "github"
        BY <1>free, <1>alone, <2>1, <2>2, <2>5, <2>7, <3>2, PauseOn, FreeSound
      <3> QED
        BY <3>1, <3>2
    <2>8. CASE MovesTo(w, "delete") /\ id # 0
      <3>1. Only(w) /\ work'[w].at = "delete" /\ work'[w].note = id
        BY <2>1, <2>8, Moves DEF Moved
      <3>2. \A n \in notes : n.id = id => n.says # "paused"
        BY <2>4 DEF Pauses
      <3>3. JobSound(work'[w], notes')
        BY <2>3, <3>1, <3>2 DEF JobSound
      <3>4. host = "github" => OneStatus(work'[w], notes')
        <4> SUFFICES ASSUME host = "github" PROVE OneStatus(work'[w], notes')
          OBVIOUS
        <4>1. \A s, t \in Marks(notes) : s = t
          BY <2>1, <2>2 DEF OneStatus
        <4>2. \A s \in Marks(notes) : s.id = id
          BY <2>1, <2>2, <2>8, <4>1 DEF JobSound, Top
        <4> QED
          BY <2>3, <3>1, <4>1, <4>2 DEF OneStatus
      <3>5. \A v \in Workers \ {w} : work'[v] = C!Free
        BY <1>alone, <2>1, <3>1
      <3> QED
        BY <2>1, <2>2, <2>5, <3>3, <3>4, <3>5, PauseOn
    <2> QED
      BY <2>1, <2>7, <2>8
  <1>10. ASSUME NEW w \in Workers, NEW refused, C!DeleteComment(w, refused) PROVE PauseInv'
    <2> DEFINE id == work[w].note
    <2>1. /\ work[w].at = "delete" /\ notes' = {n \in notes : n.id # id} /\ C!Ends(w)
          /\ host' = host /\ reviewed' = reviewed /\ asked' = asked
      <3>1. refused = {}
        BY <1>10 DEF C!DeleteComment, Known
      <3> QED
        BY <1>10, <3>1 DEF C!DeleteComment
    <2>2. /\ reviewed = 0 /\ MarksSound(notes, asked) /\ (host = "github" => OneStatus(work[w], notes))
          /\ JobSound(work[w], notes)
      BY <1>known, <2>1, HasItAlone
    <2>3. Pauses(notes') = Pauses(notes)
      BY <2>1, <2>2 DEF Pauses, JobSound
    <2>4. Marks(notes') = {m \in Marks(notes) : m.id # id}
      BY <2>1 DEF Marks
    <2>5. MarksSound(notes', asked')
      BY <2>1, <2>2, <2>3, <2>4 DEF MarksSound
    <2>6. host = "github" => OneStatus(work'[w], notes')
      BY <2>2, <2>4 DEF OneStatus
    <2> QED
      BY <1>free, <1>alone, <2>1, <2>2, <2>5, <2>6, PauseOn, FreeSound
  <1> QED
    BY <1>2, <1>3, <1>4, <1>5, <1>6, <1>7, <1>8, <1>9, <1>10 DEF C!Next

(* The mark on the page is what was asked for last, Cavix has at most one   *)
(* status comment on GitHub, and no push is reviewed while the pause lasts, *)
(* until jobs overlap, a call fails, a reply takes the marked comment's     *)
(* place, or the comments outgrow a page.                                   *)
THEOREM PauseIsKept ==
  ASSUME C!CommandsAssumption
  PROVE  C!Spec => []MarkIsWhatWasAsked
  <1>1. PauseShape /\ PauseInv => MarkIsWhatWasAsked
    <2> SUFFICES ASSUME PauseShape, PauseInv, C!Plain
                 PROVE  /\ reviewed = 0
                        /\ C!Quiet => (C!Paused # {}) = asked
                        /\ C!Quiet /\ host = "github" => C!Cardinality(C!Status) <= 1
      BY DEF MarkIsWhatWasAsked, C!MarkIsWhatWasAsked
    <2>1. Cardinality(notes) <= StatusPage /\ marred = {}
      <3>1. C!Cardinality(notes) = Cardinality(notes)
        BY DEF C!Cardinality, Cardinality
      <3> QED
        BY <3>1 DEF C!Plain
    <2>2. Known
      <3>1. Size \in Nat /\ Size <= Cardinality(notes) /\ Cardinality(notes) \in Nat /\ StatusPage \in Nat
        BY SizeCounts, FS_CardinalityType DEF PauseShape, NotesOK, Size, Left, C!CommandsAssumption
      <3> QED
        BY <2>1, <3>1 DEF Known
    <2>3. reviewed = 0 /\ asked \in BOOLEAN /\ ((C!Paused # {}) <=> asked)
      BY <2>2 DEF PauseInv, PauseShape, MarksSound, Pauses, C!Paused
    <2>4. (C!Paused # {}) = asked
      BY <2>3, Zenon
    <2>5. ASSUME C!Quiet, host = "github" PROVE C!Cardinality(C!Status) <= 1
      <3> DEFINE set == C!Status
      <3>1. \A s, t \in set : s = t
        BY <2>2, <2>5 DEF PauseInv, Marks, C!Status, C!Quiet, C!Free
      <3>2. C!Cardinality(set) = Cardinality(set)
        BY DEF C!Cardinality, Cardinality
      <3> HIDE DEF set
      <3>3. Cardinality(set) <= 1
        <4>1. CASE set = {}
          BY <4>1, FS_EmptySet
        <4>2. CASE set # {}
          <5>1. PICK c : c \in set
            BY <4>2
          <5>2. set = {c}
            BY <3>1, <5>1
          <5>3. Cardinality({c}) = 1
            BY FS_Singleton, Zenon
          <5> QED
            BY <5>2, <5>3
        <4> QED
          BY <4>1, <4>2
      <3> QED
        BY <3>2, <3>3 DEF set
    <2> QED
      BY <2>3, <2>4, <2>5
  <1> QED
    BY <1>1, PauseShapeFirst, PauseShapeStays, PauseHoldsFirst, PauseStays, PTL DEF C!Spec

-----------------------------------------------------------------------------
(***************************************************************************)
(* The description.  Until the author removes a mark, there is no mark in  *)
(* it or one whole block, with the author's text around it.                *)
(***************************************************************************)
Texts == Pieces \cup D!Marks

Framed(b, s) ==
  /\ s \in Nat /\ 1 <= s /\ s + 2 <= Len(b) /\ b[s] = D!START /\ b[s + 1] = D!Summary /\ b[s + 2] = D!END
  /\ \A i \in 1..Len(b) : i \in {s, s + 1, s + 2} \/ b[i] \in Pieces

WholeText(b) == b \in Seq(Texts) /\ ((\A i \in 1..Len(b) : b[i] \in Pieces) \/ \E s \in Nat : Framed(b, s))

DescriptionInv ==
  /\ ~tampered => WholeText(body) /\ (writer # D!NoWriter => WholeText(writer.next))
  /\ ~tampered /\ ~overlapped /\ writer # D!NoWriter => D!AuthorText(writer.next) = D!AuthorText(body)
  /\ version \in Nat
  /\ writer = D!NoWriter \/ writer.at \in {"write", "put"}
  /\ writer.at = "put" => host \in {"bitbucket", "bitbucket-server"}
  /\ writer.at = "put" => writer.version \in Nat /\ writer.version <= version /\ (writer.version = version => writer.title = title)

\* No piece is a mark, and the marks differ.
LEMMA MarksDiffer ==
  ASSUME D!PullDescriptionAssumption
  PROVE  /\ D!START # D!END /\ D!START # D!Summary /\ D!END # D!Summary
         /\ D!START \notin Pieces /\ D!END \notin Pieces /\ D!Summary \notin Pieces
         /\ D!START \in Texts /\ D!END \in Texts /\ D!Summary \in Texts /\ Pieces \subseteq Texts
  BY DEF D!PullDescriptionAssumption, D!Marks, D!START, D!END, D!Summary, Texts

\* Where there is no block, no mark is found; where there is one, both are.
LEMMA MarksFound ==
  ASSUME D!PullDescriptionAssumption, NEW b, b \in Seq(Texts)
  PROVE  /\ (\A i \in 1..Len(b) : b[i] \in Pieces) => D!IndexOf(b, D!START) = 0 /\ D!IndexOf(b, D!END) = 0
         /\ \A s \in Nat : Framed(b, s) => D!IndexOf(b, D!START) = s /\ D!IndexOf(b, D!END) = s + 2
  <1>1. Len(b) \in Nat /\ DOMAIN b = 1..Len(b)
    OBVIOUS
  <1>2. ASSUME \A i \in 1..Len(b) : b[i] \in Pieces PROVE D!IndexOf(b, D!START) = 0 /\ D!IndexOf(b, D!END) = 0
    BY <1>1, <1>2, MarksDiffer DEF D!IndexOf, D!Range
  <1>3. ASSUME NEW s \in Nat, Framed(b, s), NEW m, NEW k \in 1..Len(b), b[k] = m,
               \A i \in 1..Len(b) : b[i] = m => i = k
        PROVE  D!IndexOf(b, m) = k
    <2>1. m \in D!Range(b)
      BY <1>1, <1>3 DEF D!Range
    <2>2. \A i \in DOMAIN b : (b[i] = m /\ \A j \in 1..(i - 1) : b[j] # m) <=> i = k
      <3>1. k \in DOMAIN b /\ k \in Nat /\ k <= Len(b)
        BY <1>1
      <3>2. \A j \in 1..(k - 1) : j \in 1..Len(b) /\ j # k
        BY <1>1, <3>1
      <3> QED
        BY <1>1, <1>3, <3>1, <3>2
    <2> QED
      BY <1>1, <2>1, <2>2 DEF D!IndexOf
  <1>4. ASSUME NEW s \in Nat, Framed(b, s) PROVE D!IndexOf(b, D!START) = s /\ D!IndexOf(b, D!END) = s + 2
    <2>1. /\ s \in 1..Len(b) /\ s + 2 \in 1..Len(b) /\ b[s] = D!START /\ b[s + 1] = D!Summary /\ b[s + 2] = D!END
          /\ \A i \in 1..Len(b) : i \in {s, s + 1, s + 2} \/ b[i] \in Pieces
      BY <1>1, <1>4 DEF Framed
    <2>2. \A i \in 1..Len(b) : (b[i] = D!START => i = s) /\ (b[i] = D!END => i = s + 2)
      BY <2>1, MarksDiffer
    <2> QED
      BY <1>3, <1>4, <2>1, <2>2
  <1> QED
    BY <1>2, <1>4

\* What stands where in two sequences joined.
LEMMA Joined ==
  ASSUME NEW S, NEW a \in Seq(S), NEW c \in Seq(S)
  PROVE  /\ a \o c \in Seq(S) /\ Len(a \o c) = Len(a) + Len(c) /\ DOMAIN (a \o c) = 1..(Len(a) + Len(c))
         /\ \A i \in 1..Len(a) : (a \o c)[i] = a[i]
         /\ \A i \in 1..Len(c) : (a \o c)[Len(a) + i] = c[i]
  <1> DEFINE m == Len(a)
             n == Len(c)
  <1>1. /\ a \o c \in Seq(S) /\ Len(a \o c) = m + n
        /\ \A i \in 1..(m + n) : (a \o c)[i] = IF i <= m THEN a[i] ELSE c[i - m]
    BY ConcatProperties
  <1>2. m \in Nat /\ n \in Nat /\ DOMAIN (a \o c) = 1..(m + n)
    BY <1>1, LenProperties
  <1> SUFFICES /\ \A i \in 1..m : (a \o c)[i] = a[i]
               /\ \A i \in 1..n : (a \o c)[m + i] = c[i]
    BY <1>1, <1>2, Zenon DEF m, n
  <1> HIDE DEF m, n
  <1>3. \A i \in 1..m : i \in 1..(m + n) /\ i <= m
    BY <1>2
  <1>4. \A i \in 1..n : m + i \in 1..(m + n) /\ ~(m + i <= m) /\ (m + i) - m = i
    BY <1>2
  <1>5. \A i \in 1..m : (a \o c)[i] = a[i]
    BY <1>1, <1>3
  <1>6. ASSUME NEW i \in 1..n PROVE (a \o c)[m + i] = c[i]
    <2>1. (a \o c)[m + i] = c[(m + i) - m]
      BY <1>1, <1>4
    <2> QED
      BY <1>4, <2>1
  <1> QED
    BY <1>5, <1>6

\* What stands where in the start of a sequence and in the rest of it.
LEMMA Parts ==
  ASSUME NEW S, NEW b \in Seq(S), NEW k \in Nat, k <= Len(b)
  PROVE  /\ SubSeq(b, 1, k) \in Seq(S) /\ Len(SubSeq(b, 1, k)) = k
         /\ \A i \in 1..k : SubSeq(b, 1, k)[i] = b[i]
         /\ SubSeq(b, k + 1, Len(b)) \in Seq(S) /\ Len(SubSeq(b, k + 1, Len(b))) = Len(b) - k
         /\ \A i \in 1..(Len(b) - k) : SubSeq(b, k + 1, Len(b))[i] = b[k + i]
  <1>1. Len(b) \in Nat /\ \A i \in 1..Len(b) : b[i] \in S
    BY ElementOfSeq, LenProperties
  <1>2. \A i \in 1..k : b[i] \in S
    BY <1>1
  <1>3. \A i \in (k + 1)..Len(b) : b[i] \in S
    BY <1>1
  <1>4. /\ SubSeq(b, 1, k) \in Seq(S) /\ Len(SubSeq(b, 1, k)) = (IF 1 <= k THEN k - 1 + 1 ELSE 0)
        /\ \A i \in 1..(k - 1 + 1) : SubSeq(b, 1, k)[i] = b[1 + i - 1]
    BY <1>2, SubSeqProperties
  <1>5. /\ SubSeq(b, k + 1, Len(b)) \in Seq(S)
        /\ Len(SubSeq(b, k + 1, Len(b))) = (IF k + 1 <= Len(b) THEN Len(b) - (k + 1) + 1 ELSE 0)
        /\ \A i \in 1..(Len(b) - (k + 1) + 1) : SubSeq(b, k + 1, Len(b))[i] = b[k + 1 + i - 1]
    BY <1>1, <1>3, SubSeqProperties
  <1>6. k - 1 + 1 = k /\ (IF 1 <= k THEN k - 1 + 1 ELSE 0) = k /\ \A i \in 1..k : 1 + i - 1 = i
    OBVIOUS
  <1>7. /\ Len(b) - (k + 1) + 1 = Len(b) - k /\ (IF k + 1 <= Len(b) THEN Len(b) - (k + 1) + 1 ELSE 0) = Len(b) - k
        /\ \A i \in 1..(Len(b) - k) : k + 1 + i - 1 = k + i
    BY <1>1
  <1>8. \A i \in 1..k : SubSeq(b, 1, k)[i] = b[i]
    BY <1>4, <1>6
  <1>9. \A i \in 1..(Len(b) - k) : SubSeq(b, k + 1, Len(b))[i] = b[k + i]
    BY <1>5, <1>7
  <1> QED
    BY <1>4, <1>5, <1>6, <1>7, <1>8, <1>9

\* The block is the two marks and the summary between them.
LEMMA BlockIs ==
  ASSUME D!PullDescriptionAssumption
  PROVE  D!Block \in Seq(Texts) /\ Len(D!Block) = 3 /\ D!Block[1] = D!START /\ D!Block[2] = D!Summary /\ D!Block[3] = D!END
  BY MarksDiffer DEF D!Block

\* The block goes below a text without one, and replaces itself.
LEMMA BuildIs ==
  ASSUME D!PullDescriptionAssumption, NEW b, WholeText(b)
  PROVE  \/ D!BuildPullDescription(b) = b
         \/ D!BuildPullDescription(b) = b \o D!Block /\ \A i \in 1..Len(b) : b[i] \in Pieces
  <1>1. b \in Seq(Texts) /\ Len(b) \in Nat
    BY DEF WholeText
  <1>2. CASE \A i \in 1..Len(b) : b[i] \in Pieces
    <2>1. D!IndexOf(b, D!START) = 0
      BY <1>1, <1>2, MarksFound
    <2> QED
      BY <1>2, <2>1 DEF D!BuildPullDescription
  <1>3. ASSUME NEW s \in Nat, Framed(b, s) PROVE D!BuildPullDescription(b) = b
    <2>1. D!IndexOf(b, D!START) = s /\ D!IndexOf(b, D!END) = s + 2
      BY <1>1, <1>3, MarksFound
    <2>2. /\ 1 <= s /\ s + 2 <= Len(b) /\ b[s] = D!START /\ b[s + 1] = D!Summary /\ b[s + 2] = D!END
          /\ s # 0 /\ s + 2 > s /\ s - 1 \in Nat /\ s + 2 \in Nat /\ s - 1 <= Len(b) /\ (s - 1) + 3 = s + 2
          /\ Len(b) - (s + 2) \in Nat /\ s + 2 + (Len(b) - (s + 2)) = Len(b)
      BY <1>1, <1>3 DEF Framed
    <2> DEFINE l == SubSeq(b, 1, s - 1)
               r == SubSeq(b, (s + 2) + 1, Len(b))
               m == l \o D!Block
    <2>3. D!BuildPullDescription(b) = m \o r
      <3>1. D!BuildPullDescription(b)
              = IF D!IndexOf(b, D!START) # 0 /\ D!IndexOf(b, D!END) > D!IndexOf(b, D!START)
                THEN SubSeq(b, 1, D!IndexOf(b, D!START) - 1) \o D!Block \o SubSeq(b, D!IndexOf(b, D!END) + 1, Len(b))
                ELSE b \o D!Block
        BY Zenon DEF D!BuildPullDescription
      <3>2. D!BuildPullDescription(b)
              = IF s # 0 /\ s + 2 > s
                THEN SubSeq(b, 1, s - 1) \o D!Block \o SubSeq(b, (s + 2) + 1, Len(b))
                ELSE b \o D!Block
        BY <2>1, <3>1, Zenon
      <3> QED
        BY <2>2, <3>2, Zenon DEF l, m, r
    <2>4. l \in Seq(Texts) /\ Len(l) = s - 1 /\ \A i \in 1..(s - 1) : l[i] = b[i]
      BY <1>1, <2>2, Parts
    <2>5. /\ r \in Seq(Texts) /\ Len(r) = Len(b) - (s + 2)
          /\ \A i \in 1..(Len(b) - (s + 2)) : r[i] = b[s + 2 + i]
      BY <1>1, <2>2, Parts
    <2> HIDE DEF l, r
    <2>6. /\ m \in Seq(Texts) /\ Len(m) = s + 2 /\ \A i \in 1..(s - 1) : m[i] = l[i]
          /\ \A i \in 1..3 : m[(s - 1) + i] = D!Block[i]
      <3>1. 3 \in Nat /\ (s - 1) + 3 = s + 2
        OBVIOUS
      <3>2. /\ l \o D!Block \in Seq(Texts) /\ Len(l \o D!Block) = Len(l) + Len(D!Block)
            /\ \A i \in 1..Len(l) : (l \o D!Block)[i] = l[i]
            /\ \A i \in 1..Len(D!Block) : (l \o D!Block)[Len(l) + i] = D!Block[i]
        <4>1. l \in Seq(Texts) /\ D!Block \in Seq(Texts)
          BY <2>4, BlockIs
        <4> QED
          BY <4>1, Joined
      <3> QED
        BY <2>4, <3>1, <3>2, BlockIs, Zenon DEF m
    <2>7. m[s] = D!START /\ m[s + 1] = D!Summary /\ m[s + 2] = D!END
      <3>1. m[(s - 1) + 1] = D!Block[1] /\ m[(s - 1) + 2] = D!Block[2] /\ m[(s - 1) + 3] = D!Block[3]
        <4> HIDE DEF m
        <4>1. 1 \in 1..3 /\ 2 \in 1..3 /\ 3 \in 1..3
          OBVIOUS
        <4> QED
          BY <2>6, <4>1, Zenon
      <3>2. (s - 1) + 1 = s /\ (s - 1) + 2 = s + 1 /\ (s - 1) + 3 = s + 2
        OBVIOUS
      <3> HIDE DEF m
      <3> QED
        BY <3>1, <3>2, BlockIs
    <2> HIDE DEF m
    <2>8. \A i \in 1..(s + 2) : m[i] = b[i]
      <3>1. \A i \in 1..(s + 2) : i \in 1..(s - 1) \/ i = s \/ i = s + 1 \/ i = s + 2
        BY <2>2
      <3> QED
        BY <2>2, <2>4, <2>6, <2>7, <3>1
    <2>9. /\ m \o r \in Seq(Texts) /\ Len(m \o r) = Len(b)
          /\ \A i \in 1..(s + 2) : (m \o r)[i] = m[i]
          /\ \A i \in 1..(Len(b) - (s + 2)) : (m \o r)[s + 2 + i] = r[i]
      <3>1. /\ m \o r \in Seq(Texts) /\ Len(m \o r) = s + 2 + (Len(b) - (s + 2))
            /\ \A i \in 1..(s + 2) : (m \o r)[i] = m[i]
            /\ \A i \in 1..(Len(b) - (s + 2)) : (m \o r)[s + 2 + i] = r[i]
        <4>1. /\ m \o r \in Seq(Texts) /\ Len(m \o r) = Len(m) + Len(r)
              /\ \A i \in 1..Len(m) : (m \o r)[i] = m[i]
              /\ \A i \in 1..Len(r) : (m \o r)[Len(m) + i] = r[i]
          <5>1. m \in Seq(Texts) /\ r \in Seq(Texts)
            BY <2>5, <2>6
          <5> QED
            BY <5>1, Joined
        <4> QED
          BY <2>5, <2>6, <4>1, Zenon
      <3> QED
        BY <2>2, <3>1
    <2>10. ASSUME NEW i \in 1..Len(b) PROVE (m \o r)[i] = b[i]
      <3>1. CASE i \in 1..(s + 2)
        BY <2>8, <2>9, <3>1
      <3>2. CASE i \notin 1..(s + 2)
        <4>1. PICK k \in 1..(Len(b) - (s + 2)) : i = s + 2 + k
          <5>1. i - (s + 2) \in 1..(Len(b) - (s + 2)) /\ i = s + 2 + (i - (s + 2))
            BY <1>1, <3>2
          <5> QED
            BY <5>1
        <4> QED
          BY <2>5, <2>9, <4>1
      <3> QED
        BY <3>1, <3>2
    <2>11. m \o r = b
      BY <1>1, <2>9, <2>10, SeqEqual
    <2> QED
      BY <2>3, <2>11
  <1> QED
    BY <1>2, <1>3 DEF WholeText

\* Two texts with the same pieces at the same places are the same text to the author.
LEMMA SameText ==
  ASSUME NEW b, NEW c,
         \A i \in DOMAIN c : c[i] \in Pieces => i \in DOMAIN b /\ c[i] = b[i],
         \A i \in DOMAIN b : b[i] \in Pieces => i \in DOMAIN c /\ c[i] = b[i]
  PROVE  D!AuthorText(c) = D!AuthorText(b)
  <1>1. Pieces \cap D!Range(c) = Pieces \cap D!Range(b)
    BY DEF D!Range
  <1>2. ASSUME NEW pair \in Pieces \X Pieces
        PROVE  (\E i, j \in DOMAIN c : i < j /\ c[i] = pair[1] /\ c[j] = pair[2])
                 <=> (\E i, j \in DOMAIN b : i < j /\ b[i] = pair[1] /\ b[j] = pair[2])
    <2>1. pair[1] \in Pieces /\ pair[2] \in Pieces
      OBVIOUS
    <2>2. ASSUME NEW i \in DOMAIN c, NEW j \in DOMAIN c, i < j, c[i] = pair[1], c[j] = pair[2]
          PROVE  \E k, l \in DOMAIN b : k < l /\ b[k] = pair[1] /\ b[l] = pair[2]
      BY <2>1, <2>2, Zenon
    <2>3. ASSUME NEW i \in DOMAIN b, NEW j \in DOMAIN b, i < j, b[i] = pair[1], b[j] = pair[2]
          PROVE  \E k, l \in DOMAIN c : k < l /\ c[k] = pair[1] /\ c[l] = pair[2]
      BY <2>1, <2>3, Zenon
    <2> QED
      BY <2>2, <2>3, Zenon
  <1>3. {pair \in Pieces \X Pieces : \E i, j \in DOMAIN c : i < j /\ c[i] = pair[1] /\ c[j] = pair[2]}
          = {pair \in Pieces \X Pieces : \E i, j \in DOMAIN b : i < j /\ b[i] = pair[1] /\ b[j] = pair[2]}
    BY <1>2, Zenon
  <1> QED
    BY <1>1, <1>3, Zenon DEF D!AuthorText

\* A block below the author's text adds nothing to that.
LEMMA TextBelow ==
  ASSUME D!PullDescriptionAssumption, NEW b, b \in Seq(Texts), \A i \in 1..Len(b) : b[i] \in Pieces
  PROVE  WholeText(b \o D!Block) /\ D!AuthorText(b \o D!Block) = D!AuthorText(b)
  <1> DEFINE n == Len(b)
             c == b \o D!Block
  <1>1. Len(D!Block) = 3 /\ D!Block[1] = D!START /\ D!Block[2] = D!Summary /\ D!Block[3] = D!END
    BY BlockIs
  <1>2. n \in Nat /\ DOMAIN b = 1..n
    OBVIOUS
  <1>3. /\ c \in Seq(Texts) /\ Len(c) = n + 3 /\ DOMAIN c = 1..(n + 3) /\ \A i \in 1..n : c[i] = b[i]
        /\ \A i \in 1..3 : c[n + i] = D!Block[i]
    <2>1. /\ b \o D!Block \in Seq(Texts) /\ Len(b \o D!Block) = Len(b) + Len(D!Block)
          /\ DOMAIN (b \o D!Block) = 1..(Len(b) + Len(D!Block))
          /\ \A i \in 1..Len(b) : (b \o D!Block)[i] = b[i]
          /\ \A i \in 1..Len(D!Block) : (b \o D!Block)[Len(b) + i] = D!Block[i]
      BY BlockIs, Joined
    <2> QED
      BY <1>1, <2>1, Zenon DEF c, n
  <1>4. c[n + 1] = D!START /\ c[n + 2] = D!Summary /\ c[n + 3] = D!END
    <2>1. c[n + 1] = D!Block[1] /\ c[n + 2] = D!Block[2] /\ c[n + 3] = D!Block[3]
      BY <1>3
    <2> HIDE DEF n, c
    <2> QED
      BY <1>1, <2>1
  <1>5. \A i \in 1..n : b[i] \in Pieces
    OBVIOUS
  <1> HIDE DEF n, c
  <1>6. \A i \in 1..(n + 3) : i \in 1..n \/ i = n + 1 \/ i = n + 2 \/ i = n + 3
    BY <1>2
  <1>7. Framed(c, n + 1)
    <2>1. n + 1 \in Nat /\ 1 <= n + 1 /\ (n + 1) + 2 <= n + 3 /\ (n + 1) + 1 = n + 2 /\ (n + 1) + 2 = n + 3
      BY <1>2
    <2>2. \A i \in 1..Len(c) : i \in {n + 1, n + 2, n + 3} \/ c[i] \in Pieces
      BY <1>3, <1>5, <1>6
    <2> QED
      BY <1>3, <1>4, <2>1, <2>2 DEF Framed
  <1>8. WholeText(c)
    <2>1. n + 1 \in Nat
      BY <1>2
    <2> QED
      BY <1>3, <1>7, <2>1 DEF WholeText
  <1>9. \A i \in DOMAIN c : c[i] \in Pieces => i \in DOMAIN b /\ c[i] = b[i]
    BY <1>2, <1>3, <1>4, <1>6, MarksDiffer
  <1>10. \A i \in DOMAIN b : i \in DOMAIN c /\ c[i] = b[i]
    BY <1>2, <1>3
  <1>11. D!AuthorText(c) = D!AuthorText(b)
    BY <1>9, <1>10, SameText
  <1> QED
    BY <1>8, <1>11 DEF c

\* Building the summary keeps the author's text, and at most one block.
LEMMA BuildKeeps ==
  ASSUME D!PullDescriptionAssumption, NEW b, WholeText(b)
  PROVE  WholeText(D!BuildPullDescription(b)) /\ D!AuthorText(D!BuildPullDescription(b)) = D!AuthorText(b)
  <1>1. CASE D!BuildPullDescription(b) = b
    BY <1>1
  <1>2. CASE D!BuildPullDescription(b) = b \o D!Block /\ \A i \in 1..Len(b) : b[i] \in Pieces
    BY <1>2, TextBelow DEF WholeText
  <1> QED
    BY <1>1, <1>2, BuildIs

\* The description's module has a copy of its own of what it extends.
LEMMA SameSize ==
  ASSUME NEW set
  PROVE  D!Cardinality(set) = Cardinality(set)
  BY DEF D!Cardinality, Cardinality

\* There is one summary at most.
LEMMA OneBlock ==
  ASSUME D!PullDescriptionAssumption, NEW b, WholeText(b)
  PROVE  D!Cardinality({i \in DOMAIN b : b[i] = D!START}) <= 1
  <1> DEFINE found == {i \in DOMAIN b : b[i] = D!START}
  <1>1. DOMAIN b = 1..Len(b)
    BY LenProperties DEF WholeText
  <1>2. CASE \A i \in 1..Len(b) : b[i] \in Pieces
    <2>1. found = {}
      BY <1>1, <1>2, MarksDiffer
    <2> HIDE DEF found
    <2>2. D!Cardinality(found) = 0
      BY <2>1, FS_EmptySet, SameSize
    <2> QED
      BY <2>2 DEF found
  <1>3. ASSUME NEW s \in Nat, Framed(b, s) PROVE D!Cardinality(found) <= 1
    <2>1. Len(b) \in Nat /\ 1 <= s /\ s + 2 <= Len(b) /\ b[s] = D!START /\ b[s + 1] = D!Summary /\ b[s + 2] = D!END
      BY <1>3, LenProperties DEF Framed, WholeText
    <2>2. \A i \in 1..Len(b) : b[i] = D!START => i = s
      <3>1. \A i \in 1..Len(b) : i = s \/ i = s + 1 \/ i = s + 2 \/ b[i] \in Pieces
        BY <1>3 DEF Framed
      <3> QED
        BY <2>1, <3>1, MarksDiffer
    <2>3. found = {s}
      BY <1>1, <2>1, <2>2
    <2> HIDE DEF found
    <2>4. D!Cardinality(found) = 1
      BY <2>3, FS_Singleton, SameSize
    <2> QED
      BY <2>4
  <1> QED
    BY <1>2, <1>3 DEF WholeText

\* The text c is b with the piece p after the place k, or without the one there.
WithAt(b, k, p, c) ==
  /\ c \in Seq(Texts) /\ Len(c) = Len(b) + 1
  /\ \A j \in 1..k : c[j] = b[j]
  /\ c[k + 1] = p
  /\ \A j \in 1..(Len(b) - k) : c[k + 1 + j] = b[k + j]

WithoutAt(b, k, c) ==
  /\ c \in Seq(Texts) /\ Len(c) = Len(b) - 1
  /\ \A j \in 1..k : c[j] = b[j]
  /\ \A j \in 1..(Len(b) - (k + 1)) : c[k + j] = b[k + 1 + j]

\* What stands where after a piece is inserted.
LEMMA Inserted ==
  ASSUME NEW b \in Seq(Texts), NEW k \in Nat, k <= Len(b), NEW p \in Texts
  PROVE  WithAt(b, k, p, D!InsertAt(b, k + 1, p))
  <1> DEFINE l == SubSeq(b, 1, k)
             e == <<p>>
             r == SubSeq(b, k + 1, Len(b))
             m == l \o e
             n == Len(b)
  <1>1. D!InsertAt(b, k + 1, p) = m \o r
    <2>1. (k + 1) - 1 = k
      OBVIOUS
    <2>2. D!InsertAt(b, k + 1, p) = SubSeq(b, 1, (k + 1) - 1) \o <<p>> \o SubSeq(b, k + 1, Len(b))
      BY Zenon DEF D!InsertAt
    <2> QED
      BY <2>1, <2>2, Zenon
  <1>2. n \in Nat /\ n - k \in Nat /\ k <= n
    BY LenProperties
  <1>3. /\ l \in Seq(Texts) /\ Len(l) = k /\ \A j \in 1..k : l[j] = b[j]
        /\ r \in Seq(Texts) /\ Len(r) = n - k /\ \A j \in 1..(n - k) : r[j] = b[k + j]
    BY Parts
  <1>4. e \in Seq(Texts) /\ Len(e) = 1 /\ e[1] = p
    OBVIOUS
  <1> HIDE DEF l, e, r, n
  <1>5. /\ m \in Seq(Texts) /\ Len(m) = Len(l) + Len(e)
        /\ \A j \in 1..Len(l) : m[j] = l[j]
        /\ \A j \in 1..Len(e) : m[Len(l) + j] = e[j]
    <2>1. l \in Seq(Texts) /\ e \in Seq(Texts)
      BY <1>3, <1>4
    <2> QED
      BY <2>1, Joined
  <1> HIDE DEF m
  <1>6. /\ m \o r \in Seq(Texts) /\ Len(m \o r) = Len(m) + Len(r)
        /\ \A j \in 1..Len(m) : (m \o r)[j] = m[j]
        /\ \A j \in 1..Len(r) : (m \o r)[Len(m) + j] = r[j]
    <2>1. m \in Seq(Texts) /\ r \in Seq(Texts)
      BY <1>3, <1>5
    <2> QED
      BY <2>1, Joined
  <1>7. Len(m) = k + 1 /\ (\A j \in 1..k : m[j] = b[j]) /\ m[k + 1] = p
    <2>1. 1 \in 1..1
      OBVIOUS
    <2> QED
      BY <1>3, <1>4, <1>5, <2>1, Zenon
  <1> DEFINE d == m \o r
  <1>8. d \in Seq(Texts) /\ Len(d) = (k + 1) + (n - k) /\ \A j \in 1..(k + 1) : d[j] = m[j]
    BY <1>3, <1>6, <1>7, Zenon
  <1>9. \A j \in 1..(n - k) : d[k + 1 + j] = b[k + j]
    BY <1>3, <1>6, <1>7, Zenon
  <1> HIDE DEF d
  <1>10. (k + 1) + (n - k) = n + 1 /\ k + 1 \in 1..(k + 1) /\ \A j \in 1..k : j \in 1..(k + 1)
    BY <1>2
  <1>11. Len(d) = n + 1 /\ (\A j \in 1..k : d[j] = b[j]) /\ d[k + 1] = p
    BY <1>7, <1>8, <1>10, Zenon
  <1> QED
    BY <1>1, <1>8, <1>9, <1>11, Zenon DEF d, n, WithAt

\* What stands where after a piece is taken out.
LEMMA Removed ==
  ASSUME NEW b \in Seq(Texts), NEW k \in Nat, k + 1 <= Len(b)
  PROVE  WithoutAt(b, k, D!RemoveAt(b, k + 1))
  <1> DEFINE l == SubSeq(b, 1, k)
             r == SubSeq(b, (k + 1) + 1, Len(b))
             n == Len(b)
  <1>1. D!RemoveAt(b, k + 1) = l \o r
    <2>1. (k + 1) - 1 = k
      OBVIOUS
    <2>2. D!RemoveAt(b, k + 1) = SubSeq(b, 1, (k + 1) - 1) \o SubSeq(b, (k + 1) + 1, Len(b))
      BY Zenon DEF D!RemoveAt
    <2> QED
      BY <2>1, <2>2, Zenon
  <1>2. n \in Nat /\ n - (k + 1) \in Nat /\ k + 1 <= n /\ k <= n /\ k + 1 \in Nat
    BY LenProperties
  <1>3. l \in Seq(Texts) /\ Len(l) = k /\ \A j \in 1..k : l[j] = b[j]
    BY <1>2, Parts
  <1>4. r \in Seq(Texts) /\ Len(r) = n - (k + 1) /\ \A j \in 1..(n - (k + 1)) : r[j] = b[k + 1 + j]
    BY <1>2, Parts
  <1> HIDE DEF l, r, n
  <1> DEFINE d == l \o r
  <1>5. /\ d \in Seq(Texts) /\ Len(d) = Len(l) + Len(r)
        /\ \A j \in 1..Len(l) : d[j] = l[j]
        /\ \A j \in 1..Len(r) : d[Len(l) + j] = r[j]
    <2>1. l \in Seq(Texts) /\ r \in Seq(Texts)
      BY <1>3, <1>4
    <2> QED
      BY <2>1, Joined
  <1> HIDE DEF d
  <1>6. d \in Seq(Texts) /\ Len(d) = k + (n - (k + 1)) /\ (\A j \in 1..k : d[j] = b[j])
    BY <1>3, <1>4, <1>5, Zenon
  <1>7. \A j \in 1..(n - (k + 1)) : d[k + j] = b[k + 1 + j]
    BY <1>3, <1>4, <1>5, Zenon
  <1>8. k + (n - (k + 1)) = n - 1
    BY <1>2
  <1> QED
    BY <1>1, <1>6, <1>7, <1>8, Zenon DEF d, n, WithoutAt

\* A piece written outside the block leaves it whole.
LEMMA WriteKeeps ==
  ASSUME D!PullDescriptionAssumption, NEW b, WholeText(b), NEW p \in Pieces, NEW at \in 1..(Len(b) + 1),
         \A s \in 1..(at - 1), e \in at..Len(b) : ~(b[s] = D!START /\ b[e] = D!END)
  PROVE  WholeText(D!InsertAt(b, at, p))
  <1> DEFINE n == Len(b)
             k == at - 1
             c == D!InsertAt(b, at, p)
  <1>1. b \in Seq(Texts) /\ n \in Nat /\ p \in Texts
    BY MarksDiffer, LenProperties DEF WholeText
  <1>2. k \in Nat /\ k <= n /\ at = k + 1
    BY <1>1
  <1> HIDE DEF k
  <1> HIDE DEF c
  <1>3. /\ c \in Seq(Texts) /\ Len(c) = Len(b) + 1
        /\ \A j \in 1..k : c[j] = b[j]
        /\ c[k + 1] = p
        /\ \A j \in 1..(Len(b) - k) : c[k + 1 + j] = b[k + j]
    <2>1. b \in Seq(Texts) /\ k \in Nat /\ k <= Len(b) /\ p \in Texts /\ at = k + 1
      BY <1>1, <1>2
    <2>2. WithAt(b, k, p, D!InsertAt(b, k + 1, p))
      BY <2>1, Inserted
    <2>3. c = D!InsertAt(b, k + 1, p)
      BY <2>1, Zenon DEF c
    <2> QED
      BY <2>2, <2>3, Zenon DEF WithAt
  <1>4. \A s \in 1..k, e \in at..n : ~(b[s] = D!START /\ b[e] = D!END)
    BY DEF k
  <1> HIDE DEF n, c
  <1>5. Len(c) = n + 1 /\ \A j \in 1..(n - k) : c[k + 1 + j] = b[k + j]
    BY <1>3, Zenon DEF n
  <1>6. ASSUME NEW i \in 1..(n + 1) PROVE i \in 1..k \/ i = k + 1 \/ \E j \in 1..(n - k) : i = k + 1 + j
    <2>1. CASE i > k + 1
      <3>1. i - (k + 1) \in 1..(n - k) /\ i = k + 1 + (i - (k + 1))
        BY <1>1, <1>2, <2>1
      <3> QED
        BY <3>1
    <2> QED
      BY <1>1, <1>2, <2>1
  <1>7. \A j \in 1..k : j \in 1..n
    BY <1>1, <1>2
  <1>8. \A j \in 1..(n - k) : k + j \in 1..n
    BY <1>1, <1>2
  <1>9. CASE \A i \in 1..Len(b) : b[i] \in Pieces
    <2>1. \A i \in 1..n : b[i] \in Pieces
      BY <1>9 DEF n
    <2>2. ASSUME NEW i \in 1..(n + 1) PROVE c[i] \in Pieces
      <3>1. CASE i \in 1..k
        BY <1>3, <1>7, <2>1, <3>1
      <3>2. CASE i = k + 1
        BY <1>3, <3>2
      <3>3. ASSUME NEW j \in 1..(n - k), i = k + 1 + j PROVE c[i] \in Pieces
        BY <1>5, <1>8, <2>1, <3>3
      <3> QED
        BY <1>6, <3>1, <3>2, <3>3
    <2>3. \A i \in 1..Len(c) : c[i] \in Pieces
      BY <1>5, <2>2, Zenon
    <2> QED
      BY <1>3, <2>3, Zenon DEF WholeText, c
  <1>10. ASSUME NEW s \in Nat, Framed(b, s) PROVE WholeText(c)
    <2>1. /\ 1 <= s /\ s + 2 <= n /\ b[s] = D!START /\ b[s + 1] = D!Summary /\ b[s + 2] = D!END
          /\ \A i \in 1..n : i = s \/ i = s + 1 \/ i = s + 2 \/ b[i] \in Pieces
      BY <1>10 DEF Framed, n
    <2>2. k < s \/ s + 2 <= k
      <3> SUFFICES ASSUME s <= k, k < s + 2 PROVE FALSE
        BY <1>2
      <3>1. s \in 1..k /\ s + 2 \in at..n
        BY <1>1, <1>2, <2>1
      <3> QED
        BY <1>4, <2>1, <3>1
    <2>3. CASE k < s
      <3>1. /\ s - k \in 1..(n - k) /\ (s - k) + 1 \in 1..(n - k) /\ (s - k) + 2 \in 1..(n - k)
            /\ k + 1 + (s - k) = s + 1 /\ k + 1 + ((s - k) + 1) = s + 2 /\ k + 1 + ((s - k) + 2) = s + 3
            /\ k + (s - k) = s /\ k + ((s - k) + 1) = s + 1 /\ k + ((s - k) + 2) = s + 2
        BY <1>1, <1>2, <2>1, <2>3
      <3>2. /\ c[k + 1 + (s - k)] = b[k + (s - k)] /\ c[k + 1 + ((s - k) + 1)] = b[k + ((s - k) + 1)]
            /\ c[k + 1 + ((s - k) + 2)] = b[k + ((s - k) + 2)]
        BY <1>5, <3>1, Zenon
      <3>3. c[s + 1] = D!START /\ c[s + 2] = D!Summary /\ c[s + 3] = D!END
        BY <2>1, <3>1, <3>2, Zenon
      <3>4. ASSUME NEW i \in 1..(n + 1) PROVE i = s + 1 \/ i = s + 2 \/ i = s + 3 \/ c[i] \in Pieces
        <4>1. CASE i \in 1..k
          <5>1. i \in 1..n /\ i # s /\ i # s + 1 /\ i # s + 2
            BY <1>1, <1>2, <2>3, <4>1
          <5> QED
            BY <1>3, <2>1, <4>1, <5>1
        <4>2. CASE i = k + 1
          BY <1>3, <4>2
        <4>3. ASSUME NEW j \in 1..(n - k), i = k + 1 + j PROVE i = s + 1 \/ i = s + 2 \/ i = s + 3 \/ c[i] \in Pieces
          <5>1. c[i] = b[k + j] /\ k + j \in 1..n
            BY <1>5, <1>8, <4>3
          <5>2. (k + j = s => i = s + 1) /\ (k + j = s + 1 => i = s + 2) /\ (k + j = s + 2 => i = s + 3)
            BY <1>2, <4>3
          <5> QED
            BY <2>1, <5>1, <5>2
        <4> QED
          BY <1>6, <4>1, <4>2, <4>3
      <3>5. s + 1 \in Nat /\ 1 <= s + 1 /\ (s + 1) + 2 <= n + 1 /\ (s + 1) + 1 = s + 2 /\ (s + 1) + 2 = s + 3
        BY <1>1, <2>1
      <3>6. Framed(c, s + 1)
        BY <1>5, <3>3, <3>4, <3>5 DEF Framed
      <3> QED
        BY <1>3, <3>5, <3>6 DEF WholeText
    <2>4. CASE s + 2 <= k
      <3>1. s \in 1..k /\ s + 1 \in 1..k /\ s + 2 \in 1..k
        BY <1>2, <2>1, <2>4
      <3>2. c[s] = D!START /\ c[s + 1] = D!Summary /\ c[s + 2] = D!END
        BY <1>3, <2>1, <3>1
      <3>3. ASSUME NEW i \in 1..(n + 1) PROVE i = s \/ i = s + 1 \/ i = s + 2 \/ c[i] \in Pieces
        <4>1. CASE i \in 1..k
          BY <1>3, <1>7, <2>1, <4>1
        <4>2. CASE i = k + 1
          BY <1>3, <4>2
        <4>3. ASSUME NEW j \in 1..(n - k), i = k + 1 + j PROVE c[i] \in Pieces
          <5>1. c[i] = b[k + j] /\ k + j \in 1..n
            BY <1>5, <1>8, <4>3
          <5>2. k + j # s /\ k + j # s + 1 /\ k + j # s + 2
            BY <1>2, <2>4
          <5> QED
            BY <2>1, <5>1, <5>2
        <4> QED
          BY <1>6, <4>1, <4>2, <4>3
      <3>4. s + 2 <= n + 1
        BY <1>1, <2>1
      <3>5. Framed(c, s)
        BY <1>5, <2>1, <3>2, <3>3, <3>4 DEF Framed
      <3> QED
        BY <1>3, <3>5 DEF WholeText
    <2> QED
      BY <2>2, <2>3, <2>4
  <1> QED
    BY <1>9, <1>10 DEF WholeText, c

\* A piece erased leaves the block whole.
LEMMA EraseKeeps ==
  ASSUME D!PullDescriptionAssumption, NEW b, WholeText(b), NEW at \in DOMAIN b, b[at] \notin D!Marks
  PROVE  WholeText(D!RemoveAt(b, at))
  <1> DEFINE n == Len(b)
             k == at - 1
             c == D!RemoveAt(b, at)
  <1>1. b \in Seq(Texts) /\ n \in Nat /\ DOMAIN b = 1..n
    BY LenProperties DEF WholeText
  <1>2. k \in Nat /\ k + 1 <= n /\ at = k + 1
    BY <1>1
  <1> HIDE DEF k
  <1> HIDE DEF c
  <1>3. /\ c \in Seq(Texts) /\ Len(c) = Len(b) - 1
        /\ \A j \in 1..k : c[j] = b[j]
        /\ \A j \in 1..(Len(b) - (k + 1)) : c[k + j] = b[k + 1 + j]
    <2>1. b \in Seq(Texts) /\ k \in Nat /\ k + 1 <= Len(b) /\ at = k + 1
      BY <1>1, <1>2
    <2>2. WithoutAt(b, k, D!RemoveAt(b, k + 1))
      BY <2>1, Removed
    <2>3. c = D!RemoveAt(b, k + 1)
      BY <2>1, Zenon DEF c
    <2> QED
      BY <2>2, <2>3, Zenon DEF WithoutAt
  <1> HIDE DEF n, c
  <1>4. Len(c) = n - 1 /\ \A j \in 1..(n - (k + 1)) : c[k + j] = b[k + 1 + j]
    BY <1>3, Zenon DEF n
  <1>5. ASSUME NEW i \in 1..(n - 1) PROVE i \in 1..k \/ \E j \in 1..(n - (k + 1)) : i = k + j
    <2>1. CASE i > k
      <3>1. i - k \in 1..(n - (k + 1)) /\ i = k + (i - k)
        BY <1>1, <1>2, <2>1
      <3> QED
        BY <3>1
    <2> QED
      BY <1>1, <1>2, <2>1
  <1>6. \A j \in 1..k : j \in 1..n
    BY <1>1, <1>2
  <1>7. \A j \in 1..(n - (k + 1)) : k + 1 + j \in 1..n
    BY <1>1, <1>2
  <1>8. CASE \A i \in 1..Len(b) : b[i] \in Pieces
    <2>1. \A i \in 1..n : b[i] \in Pieces
      BY <1>8 DEF n
    <2>2. ASSUME NEW i \in 1..(n - 1) PROVE c[i] \in Pieces
      <3>1. CASE i \in 1..k
        BY <1>3, <1>6, <2>1, <3>1
      <3>2. ASSUME NEW j \in 1..(n - (k + 1)), i = k + j PROVE c[i] \in Pieces
        BY <1>4, <1>7, <2>1, <3>2
      <3> QED
        BY <1>5, <3>1, <3>2
    <2>3. \A i \in 1..Len(c) : c[i] \in Pieces
      BY <1>4, <2>2, Zenon
    <2> QED
      BY <1>3, <2>3, Zenon DEF WholeText, c
  <1>9. ASSUME NEW s \in Nat, Framed(b, s) PROVE WholeText(c)
    <2>1. /\ 1 <= s /\ s + 2 <= n /\ b[s] = D!START /\ b[s + 1] = D!Summary /\ b[s + 2] = D!END
          /\ \A i \in 1..n : i = s \/ i = s + 1 \/ i = s + 2 \/ b[i] \in Pieces
      BY <1>9 DEF Framed, n
    <2>2. k + 1 # s /\ k + 1 # s + 1 /\ k + 1 # s + 2
      BY <1>2, <2>1 DEF D!Marks
    <2>3. CASE k + 1 < s
      <3>1. /\ s - (k + 1) \in 1..(n - (k + 1)) /\ s - k \in 1..(n - (k + 1)) /\ (s - k) + 1 \in 1..(n - (k + 1))
            /\ k + (s - (k + 1)) = s - 1 /\ k + (s - k) = s /\ k + ((s - k) + 1) = s + 1
            /\ k + 1 + (s - (k + 1)) = s /\ k + 1 + (s - k) = s + 1 /\ k + 1 + ((s - k) + 1) = s + 2
        BY <1>1, <1>2, <2>1, <2>3
      <3>2. /\ c[k + (s - (k + 1))] = b[k + 1 + (s - (k + 1))] /\ c[k + (s - k)] = b[k + 1 + (s - k)]
            /\ c[k + ((s - k) + 1)] = b[k + 1 + ((s - k) + 1)]
        BY <1>4, <3>1, Zenon
      <3>3. c[s - 1] = D!START /\ c[s] = D!Summary /\ c[s + 1] = D!END
        BY <2>1, <3>1, <3>2, Zenon
      <3>4. ASSUME NEW i \in 1..(n - 1) PROVE i = s - 1 \/ i = s \/ i = s + 1 \/ c[i] \in Pieces
        <4>1. CASE i \in 1..k
          <5>1. i \in 1..n /\ i # s /\ i # s + 1 /\ i # s + 2
            BY <1>1, <1>2, <2>3, <4>1
          <5> QED
            BY <1>3, <2>1, <4>1, <5>1
        <4>2. ASSUME NEW j \in 1..(n - (k + 1)), i = k + j PROVE i = s - 1 \/ i = s \/ i = s + 1 \/ c[i] \in Pieces
          <5>1. c[i] = b[k + 1 + j] /\ k + 1 + j \in 1..n
            BY <1>4, <1>7, <4>2
          <5>2. (k + 1 + j = s => i = s - 1) /\ (k + 1 + j = s + 1 => i = s) /\ (k + 1 + j = s + 2 => i = s + 1)
            BY <1>2, <4>2
          <5> QED
            BY <2>1, <5>1, <5>2
        <4> QED
          BY <1>5, <4>1, <4>2
      <3>5. s - 1 \in Nat /\ 1 <= s - 1 /\ (s - 1) + 2 <= n - 1 /\ (s - 1) + 1 = s /\ (s - 1) + 2 = s + 1
        BY <1>1, <1>2, <2>1, <2>3
      <3>6. Framed(c, s - 1)
        BY <1>4, <3>3, <3>4, <3>5 DEF Framed
      <3> QED
        BY <1>3, <3>5, <3>6 DEF WholeText
    <2>4. CASE s + 2 < k + 1
      <3>1. s \in 1..k /\ s + 1 \in 1..k /\ s + 2 \in 1..k
        BY <1>2, <2>1, <2>4
      <3>2. c[s] = D!START /\ c[s + 1] = D!Summary /\ c[s + 2] = D!END
        BY <1>3, <2>1, <3>1
      <3>3. ASSUME NEW i \in 1..(n - 1) PROVE i = s \/ i = s + 1 \/ i = s + 2 \/ c[i] \in Pieces
        <4>1. CASE i \in 1..k
          BY <1>3, <1>6, <2>1, <4>1
        <4>2. ASSUME NEW j \in 1..(n - (k + 1)), i = k + j PROVE c[i] \in Pieces
          <5>1. c[i] = b[k + 1 + j] /\ k + 1 + j \in 1..n
            BY <1>4, <1>7, <4>2
          <5>2. k + 1 + j # s /\ k + 1 + j # s + 1 /\ k + 1 + j # s + 2
            BY <1>2, <2>4
          <5> QED
            BY <2>1, <5>1, <5>2
        <4> QED
          BY <1>5, <4>1, <4>2
      <3>4. s + 2 <= n - 1
        BY <1>1, <1>2, <2>1, <2>4
      <3>5. Framed(c, s)
        BY <1>4, <2>1, <3>2, <3>3, <3>4 DEF Framed
      <3> QED
        BY <1>3, <3>5 DEF WholeText
    <2>5. k + 1 < s \/ s + 2 < k + 1
      BY <1>2, <2>2
    <2> QED
      BY <2>3, <2>4, <2>5
  <1> QED
    BY <1>8, <1>9 DEF WholeText, c

\* At first the description is empty and nobody writes it.
LEMMA DescriptionFirst ==
  ASSUME D!Init
  PROVE  DescriptionInv
  <1>1. body = <<>> /\ version = 0 /\ writer = D!NoWriter /\ D!NoWriter.at = "idle"
    BY DEF D!Init, D!NoWriter
  <1>2. body \in Seq(Texts) /\ Len(body) = 0
    BY <1>1
  <1>3. WholeText(body)
    <2>1. \A i \in 1..Len(body) : body[i] \in Pieces
      BY <1>2
    <2> QED
      BY <1>2, <2>1 DEF WholeText
  <1> QED
    BY <1>1, <1>3 DEF DescriptionInv

\* What a step of the author leaves of the invariant.
LEMMA EditedKeeps ==
  ASSUME DescriptionInv, D!Edited, UNCHANGED host, ~tampered' => ~tampered /\ WholeText(body')
  PROVE  DescriptionInv'
  <1>1. version' = version + 1 /\ overlapped' = (overlapped \/ writer # D!NoWriter) /\ writer' = writer
    BY DEF D!Edited
  <1>2. ~tampered' => WholeText(body') /\ (writer' # D!NoWriter => WholeText(writer'.next))
    BY <1>1 DEF DescriptionInv
  <1>3. ~(~tampered' /\ ~overlapped' /\ writer' # D!NoWriter)
    BY <1>1
  <1>4. version' \in Nat
    BY <1>1 DEF DescriptionInv
  <1>5. writer' = D!NoWriter \/ writer'.at \in {"write", "put"}
    BY <1>1 DEF DescriptionInv
  <1>6. writer'.at = "put" =>
          /\ host' \in {"bitbucket", "bitbucket-server"} /\ writer'.version \in Nat /\ writer'.version <= version'
          /\ writer'.version # version'
    <2>1. writer.at = "put" => host \in {"bitbucket", "bitbucket-server"} /\ writer.version \in Nat /\ writer.version <= version
      BY DEF DescriptionInv
    <2>2. version \in Nat
      BY DEF DescriptionInv
    <2> QED
      BY <1>1, <2>1, <2>2
  <1> QED
    BY <1>2, <1>3, <1>4, <1>5, <1>6, Zenon DEF DescriptionInv

\* The author's edits and the review's steps keep the invariant.
LEMMA DescriptionStays ==
  ASSUME D!PullDescriptionAssumption, DescriptionInv, [D!Next]_(D!vars)
  PROVE  DescriptionInv'
  <1>1. ASSUME NEW p \in Pieces, NEW i \in 1..(Len(body) + 1), D!Write(p, i) PROVE DescriptionInv'
    <2>1. D!Edited /\ UNCHANGED <<host, tampered>> /\ body' = D!InsertAt(body, i, p)
          /\ \A s \in 1..(i - 1), e \in i..Len(body) : ~(body[s] = D!START /\ body[e] = D!END)
      BY <1>1 DEF D!Write, D!Edited, D!InBlock
    <2>2. ~tampered' => ~tampered /\ WholeText(body')
      BY <2>1, WriteKeeps DEF DescriptionInv
    <2> QED
      BY <2>1, <2>2, EditedKeeps
  <1>2. ASSUME NEW i \in DOMAIN body, D!Erase(i) PROVE DescriptionInv'
    <2>1. D!Edited /\ UNCHANGED host /\ body' = D!RemoveAt(body, i) /\ tampered' = (tampered \/ body[i] \in D!Marks)
      BY <1>2 DEF D!Erase, D!Edited
    <2>2. ~tampered' => ~tampered /\ WholeText(body')
      BY <2>1, EraseKeeps DEF DescriptionInv
    <2> QED
      BY <2>1, <2>2, EditedKeeps
  <1>3. ASSUME D!Rename PROVE DescriptionInv'
    <2>1. D!Edited /\ UNCHANGED <<host, body, tampered>>
      BY <1>3 DEF D!Rename, D!Edited
    <2>2. ~tampered' => ~tampered /\ WholeText(body')
      BY <2>1 DEF DescriptionInv
    <2> QED
      BY <2>1, <2>2, EditedKeeps
  <1>4. ASSUME D!GetPull PROVE DescriptionInv'
    <2>1. /\ writer' = [at |-> "write", next |-> D!BuildPullDescription(body)]
          /\ UNCHANGED <<host, body, title, version, tampered>>
      BY <1>4 DEF D!GetPull
    <2>2. writer'.at = "write" /\ writer'.next = D!BuildPullDescription(body)
      BY <2>1
    <2>3. ~tampered => /\ WholeText(body) /\ WholeText(D!BuildPullDescription(body))
                       /\ D!AuthorText(D!BuildPullDescription(body)) = D!AuthorText(body)
      BY BuildKeeps DEF DescriptionInv
    <2>4. ~tampered' => WholeText(body') /\ (writer' # D!NoWriter => WholeText(writer'.next))
      BY <2>1, <2>2, <2>3
    <2>5. ~tampered' => D!AuthorText(writer'.next) = D!AuthorText(body')
      BY <2>1, <2>2, <2>3
    <2>6. version' \in Nat
      BY <2>1 DEF DescriptionInv
    <2> QED
      BY <2>2, <2>4, <2>5, <2>6 DEF DescriptionInv
  <1>5. ASSUME writer' = D!NoWriter, tampered' = tampered, ~tampered' => WholeText(body'), version' \in Nat
        PROVE  DescriptionInv'
    <2>1. writer'.at = "idle"
      BY <1>5 DEF D!NoWriter
    <2> QED
      BY <1>5, <2>1 DEF DescriptionInv
  <1>6. ASSUME D!UpdateDescription PROVE DescriptionInv'
    <2>1. writer # D!NoWriter
      BY <1>6 DEF D!UpdateDescription, D!NoWriter
    <2>2. ~tampered' => WholeText(body')
      BY <1>6, <2>1 DEF D!UpdateDescription, DescriptionInv
    <2>3. writer' = D!NoWriter /\ tampered' = tampered /\ version' \in Nat
      BY <1>6 DEF D!UpdateDescription, DescriptionInv
    <2> QED
      BY <1>5, <2>2, <2>3
  <1>7. ASSUME D!ReadTitle PROVE DescriptionInv'
    <2>1. /\ writer.at = "write" /\ host \in {"bitbucket", "bitbucket-server"}
          /\ writer' = [at |-> "put", next |-> writer.next, title |-> title, version |-> version]
          /\ UNCHANGED <<host, body, title, version, tampered, overlapped>>
      BY <1>7 DEF D!ReadTitle
    <2>2. writer'.at = "put" /\ writer'.next = writer.next /\ writer'.title = title /\ writer'.version = version
      BY <2>1
    <2>3. writer # D!NoWriter
      BY <2>1 DEF D!NoWriter
    <2>4. version \in Nat
      BY DEF DescriptionInv
    <2>5. ~tampered' => WholeText(body') /\ (writer' # D!NoWriter => WholeText(writer'.next))
      BY <2>1, <2>2, <2>3 DEF DescriptionInv
    <2>6. ~tampered' /\ ~overlapped' => D!AuthorText(writer'.next) = D!AuthorText(body')
      BY <2>1, <2>2, <2>3 DEF DescriptionInv
    <2>7. /\ host' \in {"bitbucket", "bitbucket-server"} /\ version' \in Nat
          /\ writer'.version \in Nat /\ writer'.version <= version' /\ writer'.title = title'
      BY <2>1, <2>2, <2>4
    <2> QED
      BY <2>2, <2>5, <2>6, <2>7 DEF DescriptionInv
  <1>8. ASSUME D!PutPull PROVE DescriptionInv'
    <2>1. writer # D!NoWriter /\ writer' = D!NoWriter /\ tampered' = tampered
      BY <1>8 DEF D!PutPull, D!NoWriter
    <2>2. body' = body \/ body' = writer.next
      BY <1>8 DEF D!PutPull
    <2>3. version' = version \/ version' = version + 1
      BY <1>8 DEF D!PutPull
    <2>4. ~tampered' => WholeText(body')
      BY <2>1, <2>2 DEF DescriptionInv
    <2>5. version' \in Nat
      BY <2>3 DEF DescriptionInv
    <2> QED
      BY <1>5, <2>1, <2>4, <2>5
  <1>9. CASE UNCHANGED D!vars
    <2>1. UNCHANGED <<host, body, title, version, writer, tampered, overlapped>>
      BY <1>9 DEF D!vars
    <2> QED
      BY <2>1 DEF DescriptionInv, WholeText, Framed, D!AuthorText, D!Range, D!NoWriter
  <1> QED
    BY <1>1, <1>2, <1>3, <1>4, <1>6, <1>7, <1>8, <1>9 DEF D!Next

\* A write loses the author nothing where no edit came in between, and leaves one summary.
LEMMA WritesKeep ==
  ASSUME D!PullDescriptionAssumption, DescriptionInv, DescriptionInv', [D!Next]_(D!vars), writes' # writes
  PROVE  /\ ~tampered => /\ D!AuthorText(body') = D!AuthorText(body) \/ overlapped
                         /\ D!Cardinality({i \in DOMAIN body' : body'[i] = D!START}) <= 1
         /\ host # "bitbucket" => title' = title
  <1>1. D!UpdateDescription \/ D!PutPull
    BY DEF D!Next, D!Write, D!Erase, D!Rename, D!Edited, D!GetPull, D!ReadTitle, D!vars
  <1>2. tampered' = tampered
    BY <1>1 DEF D!UpdateDescription, D!PutPull
  <1>3. ~tampered => D!Cardinality({i \in DOMAIN body' : body'[i] = D!START}) <= 1
    BY <1>2, OneBlock DEF DescriptionInv
  <1>4. body' = body \/ body' = writer.next
    BY <1>1 DEF D!UpdateDescription, D!PutPull
  <1>5. writer # D!NoWriter
    BY <1>1 DEF D!UpdateDescription, D!PutPull, D!NoWriter
  <1>6. ~tampered => D!AuthorText(body') = D!AuthorText(body) \/ overlapped
    BY <1>4, <1>5 DEF DescriptionInv
  <1>7. CASE D!UpdateDescription
    BY <1>3, <1>6, <1>7 DEF D!UpdateDescription
  <1>8. CASE D!PutPull
    <2>1. host # "bitbucket" => title' = title
      BY <1>8 DEF D!PutPull, DescriptionInv
    <2> QED
      BY <1>3, <1>6, <2>1
  <1> QED
    BY <1>1, <1>7, <1>8

(* On every host the summary is written into the description without       *)
(* costing the author a word or bringing one back, and there is one        *)
(* summary, unless an edit overlapped the write or a mark was removed.     *)
THEOREM AuthorIsKept ==
  ASSUME D!PullDescriptionAssumption
  PROVE  D!Spec => AuthorTextKept
  <1>1. DescriptionInv /\ [D!Next]_(D!vars) => DescriptionInv'
    BY DescriptionStays
  <1>2. D!Init => DescriptionInv
    BY DescriptionFirst
  <1>3. DescriptionInv /\ DescriptionInv' /\ [D!Next]_(D!vars) =>
          [writes' # writes =>
             /\ ~tampered => /\ D!AuthorText(body') = D!AuthorText(body) \/ overlapped
                             /\ D!Cardinality({i \in DOMAIN body' : body'[i] = D!START}) <= 1
             /\ host # "bitbucket" => title' = title]_(D!vars)
    BY WritesKeep, Zenon
  <1> QED
    BY <1>1, <1>2, <1>3, PTL DEF D!Spec, AuthorTextKept, D!AuthorTextKept

(***************************************************************************)
(* The three parts share the host alone, and none changes it: what each    *)
(* keeps by itself, it keeps beside the others.                            *)
(***************************************************************************)
LEMMA HostStays ==
  PullNext \/ UNCHANGED pullVars => host' = host
  <1>1. CASE Next
    BY <1>1 DEF Next, Push, Start, RunSummaryOnly, Fold, Reconcile, Remove, ClearPrevious, ClearDismiss,
                ClearDelete, Post, Fail, FinishRow, SaveLedger, ResolveList, ResolveDismiss, ResolveDelete,
                ResolveLedger
  <1>2. CASE D!Next
    BY <1>2 DEF D!Next, D!Write, D!Erase, D!Rename, D!Edited, D!GetPull, D!UpdateDescription, D!ReadTitle,
                D!PutPull
  <1>3. CASE C!Next
    <2>1. C!Chat => host' = host
      BY DEF C!Chat
    <2>2. ASSUME NEW w \in Workers, NEW command, NEW author, NEW gate, C!Take(w, command, author, gate)
          PROVE  host' = host
      BY <2>2 DEF C!Take
    <2>3. ASSUME NEW w \in Workers, NEW refused,
                 \/ C!ShouldSkipAutomatic(w, refused) \/ C!FindStatus(w, refused) \/ C!FindMark(w, refused)
                 \/ C!FindLast(w, refused) \/ C!DeleteComment(w, refused)
          PROVE  host' = host
      BY <2>3 DEF C!ShouldSkipAutomatic, C!FindStatus, C!FindMark, C!FindLast, C!DeleteComment
    <2>4. ASSUME NEW w \in Workers, NEW refused, C!SetPaused(w, refused) \/ C!CreateComment(w, refused)
          PROVE  host' = host
      BY <2>4 DEF C!SetPaused, C!CreateComment
    <2> QED
      BY <1>3, <2>1, <2>2, <2>3, <2>4 DEF C!Next
  <1> QED
    BY <1>1, <1>2, <1>3 DEF PullNext, ReviewStep, DescriptionStep, CommandStep, pullVars

\* The composition's reviews are those of Posting,
LEMMA ReviewsAreTheirs ==
  PullSpec => Spec
  <1>1. PullInit => Init
    BY DEF PullInit
  <1>2. [PullNext]_pullVars => [Next]_vars
    BY HostStays DEF PullNext, ReviewStep, DescriptionStep, CommandStep, pullVars, reviewVars, vars
  <1> QED
    BY <1>1, <1>2, PTL DEF PullSpec, Spec

\* its commands those of Commands,
LEMMA CommandsAreTheirs ==
  PullSpec => C!Spec
  <1>1. PullInit => C!Init
    BY DEF PullInit
  <1>2. [PullNext]_pullVars => [C!Next]_(C!vars)
    BY HostStays DEF PullNext, ReviewStep, DescriptionStep, CommandStep, pullVars, commandVars, C!vars
  <1> QED
    BY <1>1, <1>2, PTL DEF PullSpec, C!Spec

\* and its description that of PullDescription.
LEMMA DescriptionsAreTheirs ==
  PullSpec => D!Spec
  <1>1. PullInit => D!Init
    BY DEF PullInit
  <1>2. [PullNext]_pullVars => [D!Next]_(D!vars)
    BY HostStays DEF PullNext, ReviewStep, DescriptionStep, CommandStep, pullVars, descriptionVars, D!vars
  <1> QED
    BY <1>1, <1>2, PTL DEF PullSpec, D!Spec

(* On one pull request, whichever part of Cavix works on it: no row is      *)
(* green unless that was asked, no thread that is still needed is deleted,  *)
(* the pause is what was asked for last, the summary in the description     *)
(* costs the author no word, and while the findings and the runs fit in a   *)
(* page a finding has one comment (PullSpec, the specification of the run   *)
(* posting).                                                                *)
THEOREM PullIsKept ==
  ASSUME PostingAssumption, C!CommandsAssumption, D!PullDescriptionAssumption
  PROVE  PullSpec => /\ []GreenOnlyIfAsked
                     /\ RepliesSurvive
                     /\ []MarkIsWhatWasAsked
                     /\ AuthorTextKept
                     /\ FitsAPage => []OneCommentEach
  <1>1. PullSpec => []GreenOnlyIfAsked
    BY GreenIsAsked, ReviewsAreTheirs
  <1>2. PullSpec => RepliesSurvive
    BY ThreadsSurvive, ReviewsAreTheirs
  <1>3. PullSpec => []MarkIsWhatWasAsked
    BY PauseIsKept, CommandsAreTheirs
  <1>4. PullSpec => AuthorTextKept
    BY AuthorIsKept, DescriptionsAreTheirs
  <1>5. FitsAPage => (PullSpec => []OneCommentEach)
    BY OneCommentForEach, ReviewsAreTheirs
  <1> QED
    BY <1>1, <1>2, <1>3, <1>4, <1>5

=============================================================================
