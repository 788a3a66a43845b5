------------------------------ MODULE Triggers ------------------------------
(***************************************************************************)
(* What the hosts' webhooks become at the edge: which events are reviews   *)
(* or commands, the key each is known by, and what of it reaches the       *)
(* queue (services/edge/internal/webhook: github.go, gitlab.go,            *)
(* bitbucket.go, azure.go, command.go, handler.go).                        *)
(*                                                                         *)
(* One pull request on one host, platform.  The host sends one event per   *)
(* change of it and may deliver any event again.  A comment is a sequence  *)
(* of lines, a line a sequence of words.  Secrets and signatures are left  *)
(* out: every delivery here is the host's own.  So are enqueues that fail  *)
(* (module Ingress).                                                       *)
(***************************************************************************)
EXTENDS Integers, Sequences, FiniteSets, TLC

CONSTANTS
  Heads,        \* commits the branch may point at
  CommentTexts, \* bodies of comments
  MaxEvents     \* bound: events of the pull request

\* What the constants are.
TriggersAssumption == Heads # {} /\ MaxEvents \in Nat

VARIABLES
  platform, \* the host
  pull,     \* the pull request on the host: its head, whether it is open
  sent,     \* the events the host has sent, in order
  seen,     \* keys in the deduplication window
  queued    \* jobs on the queue, in order

triggerVars == <<platform, pull, sent, seen, queued>>

Hosts == {"github", "gitlab", "bitbucket", "azure"}

-----------------------------------------------------------------------------
(* The hosts' vocabulary.                                                  *)

\* What a host calls an event (external).  Three of them have one name for a
\* push and for an edited title.
HostAction(what) ==
  CASE platform = "github" ->
         [open |-> "opened", push |-> "synchronize", edit |-> "edited",
          reopen |-> "reopened", close |-> "closed"][what]
    [] platform = "gitlab" ->
         [open |-> "open", push |-> "update", edit |-> "update",
          reopen |-> "reopen", close |-> "close"][what]
    [] platform = "bitbucket" ->
         [open |-> "pullrequest:created", push |-> "pullrequest:updated",
          edit |-> "pullrequest:updated", reopen |-> "none", close |-> "pullrequest:rejected"][what]
    [] platform = "azure" ->
         IF what = "open" THEN "git.pullrequest.created" ELSE "git.pullrequest.updated"

-----------------------------------------------------------------------------
(* Commands in comments.                                                   *)

Aliases ==
  [word \in {"review", "re-review", "rereview", "full"} |-> "review"]
    @@ [word \in {"resolve", "dismiss"} |-> "resolve"]
    @@ [word \in {"pause", "stop"} |-> "pause"]
    @@ [word \in {"resume", "start"} |-> "resume"]
    @@ [word \in {"summary", "summarize"} |-> "summary"]
    @@ [word \in {"help", "ask", "configure"} |-> word]

\* A word with its leading dashes and slashes taken off.
Bare(word) ==
  CASE word = "--review" -> "review" [] word = "/pause" -> "pause" [] OTHER -> word

\* The handle matches anywhere in a word that ends it: in an address, what
\* follows the handle belongs to the rest of the line.
Mentions(word) == word \in {"@cavix", "@cavixcode", "@cavixcode[bot]", "me@cavix.dev"}
RestOfWord(word) == IF word = "me@cavix.dev" THEN <<".dev">> ELSE <<>>

\* The words after the first mention, to the end of its line.
AfterMention(text) ==
  LET line == text[CHOOSE l \in DOMAIN text :
                     /\ \E w \in DOMAIN text[l] : Mentions(text[l][w])
                     /\ \A k \in 1 .. (l - 1) : \A w \in DOMAIN text[k] : ~Mentions(text[k][w])]
      at == CHOOSE w \in DOMAIN line : Mentions(line[w]) /\ \A k \in 1 .. (w - 1) : ~Mentions(line[k])
  IN RestOfWord(line[at]) \o SubSeq(line, at + 1, Len(line))

IsMentioned(text) == \E l \in DOMAIN text : \E w \in DOMAIN text[l] : Mentions(text[l][w])

ParseCommand(text) ==
  LET rest == AfterMention(text) IN
  IF rest = <<>> THEN "help"
  ELSE IF Bare(Head(rest)) \in DOMAIN Aliases THEN Aliases[Bare(Head(rest))] ELSE "ask"

-----------------------------------------------------------------------------
(* Jobs and their keys.                                                    *)

\* The change of ReviewKey that leaves the commit out of it.
ReviewKeyOfAction(e) == <<"review", e.action>>

\* A review's key binds to the action and the head commit.
ReviewKey(e) == <<"review", e.action, e.head>>

CommandKey(e) == <<"command", ParseCommand(e.text), e.comment>>

Review(e) == [trigger |-> "pull_request", key |-> ReviewKey(e), head |-> e.head, force |-> FALSE]
Command(e) ==
  [trigger |-> "command", key |-> CommandKey(e), command |-> ParseCommand(e.text),
   author |-> e.author, force |-> ParseCommand(e.text) = "review"]

One(job, wanted) == IF wanted THEN <<job>> ELSE <<>>

\* The job an event becomes on each host, if it triggers one.  An update of a
\* closed pull request has a name that triggers, so three hosts look at the state.
GitHubReview(e) ==
  One(Review(e), e.action \in {"opened", "synchronize", "reopened", "ready_for_review"})
GitLabReview(e) ==
  One(Review(e), e.action \in {"open", "reopen", "update", "ready"} /\ e.open)
BitbucketReview(e) ==
  One(Review(e), e.action \in {"pullrequest:created", "pullrequest:updated"} /\ e.open)
AzureReview(e) ==
  One(Review(e), e.action \in {"git.pullrequest.created", "git.pullrequest.updated"} /\ e.open)

\* A comment is a command on the two hosts that can say who may give one.  On
\* GitHub edits do not count, nor do bots, and the edge itself turns away whoever
\* is no collaborator; on GitLab the orchestrator asks the host later.
GitHubCommand(e) ==
  One(Command(e), /\ e.action = "created" /\ IsMentioned(e.text)
                  /\ e.author \notin {"bot", "self", "outsider"})
GitLabCommand(e) == One(Command(e), IsMentioned(e.text))

Normalize(e) ==
  CASE platform = "github" -> IF e.kind = "pull" THEN GitHubReview(e) ELSE GitHubCommand(e)
    [] platform = "gitlab" -> IF e.kind = "pull" THEN GitLabReview(e) ELSE GitLabCommand(e)
    [] platform = "bitbucket" -> IF e.kind = "pull" THEN BitbucketReview(e) ELSE <<>>
    [] platform = "azure" -> IF e.kind = "pull" THEN AzureReview(e) ELSE <<>>

\* enqueue: what the window holds is answered as a duplicate.
Deliver(e) ==
  LET fresh == IF \E i \in DOMAIN Normalize(e) : Normalize(e)[i].key \in seen THEN <<>> ELSE Normalize(e)
  IN /\ queued' = queued \o fresh
     /\ seen' = seen \cup {fresh[i].key : i \in DOMAIN fresh}

-----------------------------------------------------------------------------
(* The host.                                                               *)

PullEvent(what, head, open) == [kind |-> "pull", action |-> HostAction(what), head |-> head, open |-> open]
CommentEvent(id, action, author, text) ==
  [kind |-> "comment", comment |-> id, action |-> action, author |-> author, text |-> text]

TriggersInit ==
  \E h \in Heads :
    /\ platform \in Hosts
    /\ pull = [head |-> h, open |-> TRUE]
    /\ sent = <<PullEvent("open", h, TRUE)>>
    /\ queued = Normalize(sent[1])
    /\ seen = {ReviewKey(sent[1])}

Send(e) == Len(sent) < MaxEvents /\ sent' = Append(sent, e) /\ Deliver(e)

\* A push, a forced one included; of a closed pull request the hosts say nothing.
Push(h) ==
  /\ h # pull.head
  /\ pull' = [pull EXCEPT !.head = h] /\ UNCHANGED platform
  /\ IF pull.open THEN Send(PullEvent("push", h, TRUE)) ELSE UNCHANGED <<sent, seen, queued>>

EditTitle ==
  /\ pull.open
  /\ Send(PullEvent("edit", pull.head, TRUE))
  /\ UNCHANGED <<platform, pull>>

Close ==
  /\ pull.open
  /\ pull' = [pull EXCEPT !.open = FALSE] /\ UNCHANGED platform
  /\ Send(PullEvent("close", pull.head, FALSE))

Reopen ==
  /\ ~pull.open /\ platform # "bitbucket"
  /\ pull' = [pull EXCEPT !.open = TRUE] /\ UNCHANGED platform
  /\ Send(PullEvent("reopen", pull.head, TRUE))

\* A comment: by someone who may command, by someone who may not, by another bot,
\* or by the reviewer itself.
Write(author, text) ==
  /\ Send(CommentEvent(Len(sent) + 1, "created", author, text))
  /\ UNCHANGED <<platform, pull>>

Rewrite(i, text) ==
  /\ sent[i].kind = "comment" /\ sent[i].text # text
  /\ Send(CommentEvent(sent[i].comment, "edited", sent[i].author, text))
  /\ UNCHANGED <<platform, pull>>

Redeliver(i) == Deliver(sent[i]) /\ UNCHANGED <<platform, pull, sent>>

TriggersNext ==
  \/ \E h \in Heads : Push(h)
  \/ EditTitle \/ Close \/ Reopen
  \/ \E author \in {"member", "outsider", "bot", "self"}, text \in CommentTexts : Write(author, text)
  \/ \E i \in DOMAIN sent, text \in CommentTexts : Rewrite(i, text)
  \/ \E i \in DOMAIN sent : Redeliver(i)

TriggersSpec == TriggersInit /\ [][TriggersNext]_triggerVars

-----------------------------------------------------------------------------
(* Properties.                                                             *)

Reviews == {i \in DOMAIN queued : queued[i].trigger = "pull_request"}

\* The head an open pull request stands at has had its job, through pushes that
\* bring an earlier commit back, pushes while it was closed, events delivered
\* again and edits under the same name; and each comment of a member that gives
\* an order has had exactly one job for it, however often it was delivered.
NothingIsMissed ==
  /\ pull.open => \E i \in Reviews : queued[i].head = pull.head
  /\ platform \in {"github", "gitlab"} =>
       \A k \in DOMAIN sent :
         sent[k].kind = "comment" /\ sent[k].action = "created" /\ sent[k].author = "member"
           /\ IsMentioned(sent[k].text) =>
           Cardinality({i \in DOMAIN queued : queued[i].key = CommandKey(sent[k])}) = 1

=============================================================================
