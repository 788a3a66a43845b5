------------------------------ MODULE Commands ------------------------------
(***************************************************************************)
(* What makeReviewHandler (workflow/reviewWorkflow.ts) does before and     *)
(* instead of a review: the dashboard's gate, who may command, the         *)
(* commands of workflow/commands.ts, and the pause, which is kept nowhere  *)
(* but in a mark on Cavix's status comment of the pull request.            *)
(*                                                                         *)
(* Several workers serve the jobs of a pull request at once; a step is one *)
(* call to the host.  What GitLab's project members are asked is part of   *)
(* the author of a command.                                                *)
(***************************************************************************)
EXTENDS Naturals, FiniteSets

CONSTANTS Workers, Hosts,
          Authors,    \* who may write a command: [developer, blocked, readable]
          CommandNames,
          Gates,      \* the dashboard's answers: open, closed, capped
          PageSize,   \* comments the host lists in one page
          MaxJobs,    \* bound: jobs
          MaxChat,    \* bound: comments of other people
          MaxFaults   \* bound: calls the host fails

\* What the constants are: no command is named as a mark is.
CommandsAssumption ==
  /\ CommandNames \cap {"chat", "paused", "none"} = {}
  /\ PageSize \in Nat \ {0} /\ MaxJobs \in Nat /\ MaxChat \in Nat /\ MaxFaults \in Nat

VARIABLES
  host, notes, next,   \* the comments of the pull request
  work,                \* each worker's job
  asked,               \* history: somebody paused the pull request last
  reviewed,            \* history: automatic reviews of a paused pull request
  marred,              \* history: what may have cost the mark its meaning
  count                \* bound: jobs, chat and faults so far

vars == <<host, notes, next, work, asked, reviewed, marred, count>>

GitHub == INSTANCE GitHubHost
GitLab == INSTANCE GitLabHost
Bitbucket == INSTANCE BitbucketHost
Server == INSTANCE BitbucketServerHost
Azure == INSTANCE AzureHost WITH MaxDiffFiles <- 2

Free == [at |-> "free"]

FindComment(marked, refused) ==
  CASE host = "github" -> GitHub!FindComment(notes, marked, refused)
    [] host = "gitlab" -> GitLab!FindComment(notes, marked, refused)
    [] host = "bitbucket" -> Bitbucket!FindComment(notes, marked, refused)
    [] host = "bitbucket-server" -> Server!FindComment(notes, marked, refused)
    [] OTHER -> Azure!FindComment(notes, marked, refused)

CommandsAllowed(author) ==
  CASE host = "github" -> GitHub!CommandsAllowed(author)
    [] host = "gitlab" -> GitLab!CommandsAllowed(author)
    [] host = "bitbucket" -> Bitbucket!CommandsAllowed(author)
    [] host = "bitbucket-server" -> Server!CommandsAllowed(author)
    [] OTHER -> Azure!CommandsAllowed(author)

DeletesComments == IF host = "github" THEN GitHub!DeletesComments ELSE GitLab!DeletesComments
GivesBody == IF host = "github" THEN GitHub!GivesBody ELSE GitLab!GivesBody

(* The two marks. *)
Status == {n \in notes : n.says # "chat"}
Paused == {n \in notes : n.says = "paused"}

Refusals == {{}} \cup (IF count.faults < MaxFaults THEN {{"list"}, {"write"}} ELSE {})
Counted(refused) == [count EXCEPT !.faults = @ + Cardinality(refused)]

Init ==
  /\ host \in Hosts /\ notes = {} /\ next = 1
  /\ work = [w \in Workers |-> Free]
  /\ asked = FALSE /\ reviewed = 0 /\ marred = {}
  /\ count = [jobs |-> 0, chat |-> 0, faults |-> 0]

(* Other people talk. *)
Chat ==
  /\ count.chat < MaxChat
  /\ notes' = notes \cup {[id |-> next, says |-> "chat"]} /\ next' = next + 1
  /\ count' = [count EXCEPT !.chat = @ + 1]
  /\ UNCHANGED <<host, work, asked, reviewed, marred>>

(***************************************************************************)
(* The job.                                                                *)
(***************************************************************************)
Goes(w, to) == work' = [work EXCEPT ![w].at = to]
Ends(w) == work' = [work EXCEPT ![w] = Free]
Busy(w) == \E v \in Workers \ {w} : work[v] # Free

(* Where the job goes: a review un-pauses first, the commands that only
   answer are one. *)
DispatchCommand(command) ==
  CASE command = "pause" -> "pause"
    [] command \in {"resume", "review"} -> "resume"
    [] OTHER -> "say"

(* A worker takes a push or a command.  A gate that is closed answers a
   command and drops a push, a reached limit answers either; then the author
   is asked about, and only a push may be skipped. *)
Take(w, command, author, gate) ==
  /\ work[w] = Free /\ count.jobs < MaxJobs
  /\ LET job(at, text) == work' = [work EXCEPT ![w] = [at |-> at, text |-> text, note |-> 0, was |-> "none"]]
     IN CASE gate = "capped" -> job("say", "cap reached")
          [] gate = "closed" /\ command # "push" -> job("say", "not enabled")
          [] gate = "closed" /\ command = "push" -> UNCHANGED work
          [] gate = "open" /\ command = "push" -> job("skip?", "none")
          [] ~CommandsAllowed(author) -> job("say", "refused")
          [] OTHER -> job(DispatchCommand(command), command)
  /\ count' = [count EXCEPT !.jobs = @ + 1]
  /\ marred' = marred \cup (IF Busy(w) THEN {"overlap"} ELSE {})
  /\ UNCHANGED <<host, notes, next, asked, reviewed>>

(* A push is passed over while the mark is there; if the mark cannot be
   looked up it is reviewed. *)
ShouldSkipAutomatic(w, refused) ==
  /\ work[w].at = "skip?"
  /\ reviewed' = IF FindComment(Paused, refused) = {} /\ asked THEN reviewed + 1 ELSE reviewed
  /\ marred' = marred \cup refused
  /\ Ends(w) /\ count' = Counted(refused)
  /\ UNCHANGED <<host, notes, next, asked>>

(***************************************************************************)
(* Pausing writes the mark into the newest status comment, or into a new   *)
(* one; resuming takes it out of the newest comment that has it.           *)
(***************************************************************************)
The(found) == CHOOSE n \in found : TRUE
Holds(id) == \E n \in notes : n.id = id
Create(says) == notes' = notes \cup {[id |-> next, says |-> says]} /\ next' = next + 1
Rewrite(id, says) ==
  /\ notes' = {IF n.id = id THEN [n EXCEPT !.says = says] ELSE n : n \in notes}
  /\ UNCHANGED next

(* Mutant: a pause always writes a comment of its own. *)
MutantFindStatus(w, refused) ==
  /\ work[w].at = "pause"
  /\ work' = [work EXCEPT ![w].at = "mark"]
  /\ marred' = marred \cup refused /\ count' = Counted(refused)
  /\ UNCHANGED <<host, notes, next, asked, reviewed>>

FindStatus(w, refused) ==
  /\ work[w].at = "pause"
  /\ LET found == FindComment(Status, refused)
     IN work' = [work EXCEPT ![w].at = "mark", ![w].note = IF found = {} THEN 0 ELSE The(found).id]
  /\ marred' = marred \cup refused /\ count' = Counted(refused)
  /\ UNCHANGED <<host, notes, next, asked, reviewed>>

FindMark(w, refused) ==
  /\ work[w].at = "resume"
  /\ LET found == FindComment(Paused, refused)
     IN IF found = {} THEN Ends(w) /\ asked' = FALSE
        ELSE work' = [work EXCEPT ![w].at = "unmark", ![w].note = The(found).id] /\ UNCHANGED asked
  /\ marred' = marred \cup refused /\ count' = Counted(refused)
  /\ UNCHANGED <<host, notes, next, reviewed>>

(* A comment that is gone, or a host that refuses, fails the command. *)
SetPaused(w, refused) ==
  /\ work[w].at \in {"mark", "unmark"}
  /\ LET to == IF work[w].at = "mark" THEN "paused" ELSE "active"
         id == work[w].note
         fails == refused # {} \/ (id # 0 /\ ~Holds(id))
     IN IF fails THEN UNCHANGED <<notes, next, asked>>
        ELSE /\ IF id = 0 THEN Create(to) ELSE Rewrite(id, to)
             /\ asked' = (to = "paused")
  /\ Ends(w)
  /\ marred' = marred \cup refused /\ count' = Counted(refused)
  /\ UNCHANGED <<host, reviewed>>

(***************************************************************************)
(* Every other answer of Cavix: a new comment in place of the last one,    *)
(* so that it is seen; the same words are not said twice.                  *)
(***************************************************************************)
FindLast(w, refused) ==
  /\ work[w].at = "say"
  /\ LET found == FindComment(Status, refused)
         same == found # {} /\ GivesBody /\ The(found).says = work[w].text
     IN CASE same -> Ends(w)
          [] found = {} -> work' = [work EXCEPT ![w].at = "create"]
          [] OTHER -> work' = [work EXCEPT ![w].at = "create", ![w].note = The(found).id, ![w].was = The(found).says]
  /\ marred' = marred \cup refused /\ count' = Counted(refused)
  /\ UNCHANGED <<host, notes, next, asked, reviewed>>

CreateComment(w, refused) ==
  /\ work[w].at = "create"
  /\ IF refused = {} THEN Create(work[w].text) ELSE UNCHANGED <<notes, next>>
  /\ IF refused = {} /\ work[w].note # 0 /\ DeletesComments THEN Goes(w, "delete") ELSE Ends(w)
  /\ marred' = marred \cup refused \cup (IF work[w].was = "paused" THEN {"reply"} ELSE {})
  /\ count' = Counted(refused)
  /\ UNCHANGED <<host, asked, reviewed>>

DeleteComment(w, refused) ==
  /\ work[w].at = "delete"
  /\ notes' = IF refused = {} THEN {n \in notes : n.id # work[w].note} ELSE notes
  /\ Ends(w)
  /\ marred' = marred \cup refused /\ count' = Counted(refused)
  /\ UNCHANGED <<host, next, asked, reviewed>>

Next ==
  \/ Chat
  \/ \E w \in Workers :
       \/ \E command \in CommandNames, author \in Authors, gate \in Gates : Take(w, command, author, gate)
       \/ \E refused \in Refusals :
            \/ ShouldSkipAutomatic(w, refused)
            \/ FindStatus(w, refused) \/ FindMark(w, refused) \/ SetPaused(w, refused)
            \/ FindLast(w, refused) \/ CreateComment(w, refused) \/ DeleteComment(w, refused)

Spec == Init /\ [][Next]_vars
-----------------------------------------------------------------------------
TypeOK ==
  /\ asked \in BOOLEAN /\ reviewed \in Nat
  /\ \A n \in notes : n.id < next
  /\ marred \subseteq {"overlap", "reply", "list", "write"}

Quiet == \A w \in Workers : work[w] = Free
Plain == marred = {} /\ Cardinality(notes) <= PageSize

(* The mark on the page is what was asked for last, Cavix has at most one
   status comment there, and no push is reviewed while the pause lasts ("It
   will not review new pushes here until someone comments @cavixcode
   resume"): until jobs overlap, a call fails, a reply takes the place of
   the paused comment, or the comments outgrow a page (setPaused, say). *)
MarkIsWhatWasAsked ==
  Plain => /\ reviewed = 0
           /\ Quiet => (Paused # {}) = asked
           /\ Quiet /\ host = "github" => Cardinality(Status) <= 1
=============================================================================
