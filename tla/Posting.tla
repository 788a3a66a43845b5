------------------------------ MODULE Posting -------------------------------
(***************************************************************************)
(* The page of one pull request over the reviews it gets: the second half  *)
(* of runReview in services/orchestrator/src/workflow/reviewWorkflow.ts,   *)
(* reconcileInlineComments of poster/comments.ts, and "@cavixcode          *)
(* resolve" of workflow/commands.ts, on any of the five hosts.  A step is  *)
(* one call to the host.  Reviews have the slot, so one runs at a time; a  *)
(* resolve does not ask for it.                                            *)
(*                                                                         *)
(* A finding is named by its fingerprint, and all of them are at the       *)
(* blocking severity.                                                      *)
(***************************************************************************)
EXTENDS Naturals, FiniteSets

CONSTANTS Hosts, Findings,
          PageSize,    \* entries the host lists in one page
          Kinds,       \* what a run is for: webhook, review, summary
          MaxHeads,    \* bound: heads of the pull request
          MaxRuns,     \* bound: runs started
          MaxResolves, \* bound: resolve commands on each host
          MaxFaults    \* bound: calls the host fails

VARIABLES
  host, blockOn,   \* the host, and "Let Cavix request changes"
  head, code,      \* the head, and the findings its code has
  page, ledger,    \* what the host shows; the open findings on record
  run, cmd,        \* the review and the resolve in progress
  failed, faults,  \* history: the calls that failed, and how many
  last,            \* history: what the last review of each head asked for
  summaries,       \* history: heads a summary was written for
  counts           \* bound: runs and resolves so far

vars == <<host, blockOn, head, code, page, ledger, run, cmd, failed, faults, last, summaries, counts>>

GitHub == INSTANCE GitHubHost
GitLab == INSTANCE GitLabHost
Bitbucket == INSTANCE BitbucketHost
Server == INSTANCE BitbucketServerHost
Azure == INSTANCE AzureHost WITH MaxDiffFiles <- 2

Heads == 1..MaxHeads
Idle == [at |-> "idle"]

\* The calls that fail; a call that posts a finding's comment has its name.
CallNames == {"row", "ledger", "list", "page", "delete", "dismiss", "review", "answer", "refs", "flag", "save"}

\* What the constants are.
PostingAssumption ==
  /\ Hosts \subseteq GitHub!Platforms
  /\ IsFiniteSet(Findings) /\ Findings \cap CallNames = {}
  /\ Kinds \subseteq {"webhook", "review", "summary"}
  /\ PageSize \in Nat \ {0} /\ MaxHeads \in Nat \ {0}
  /\ MaxRuns \in Nat /\ MaxResolves \in [Hosts -> Nat] /\ MaxFaults \in Nat

Capability ==
  CASE host = "github" -> GitHub!FullCapabilities
    [] host = "gitlab" -> GitLab!GitLabCapabilities
    [] host = "bitbucket" -> Bitbucket!BitbucketCapabilities
    [] host = "bitbucket-server" -> Server!ServerCapabilities
    [] OTHER -> Azure!AzureCapabilities

PostReview(review, refused) ==
  CASE host = "github" -> GitHub!PostReview(page, review, refused)
    [] host = "gitlab" -> GitLab!PostReview(page, review, refused)
    [] host = "bitbucket" -> Bitbucket!PostReview(page, review, refused)
    [] host = "bitbucket-server" -> Server!PostReview(page, review, refused)
    [] OTHER -> Azure!PostReview(page, review, refused)

OwnReviews(refused) ==
  CASE host = "github" -> GitHub!ListOwnReviews(page, refused)
    [] host = "gitlab" -> GitLab!ListOwnReviews(page, refused)
    [] host = "bitbucket" -> Bitbucket!ListOwnReviews(page, refused)
    [] host = "bitbucket-server" -> Server!ListOwnReviews(page, refused)
    [] OTHER -> Azure!ListOwnReviews(page, refused)

Dismiss(id, refused) ==
  CASE host = "github" -> GitHub!DismissReview(page, id, refused)
    [] host = "gitlab" -> GitLab!DismissReview(page, id, refused)
    [] host = "bitbucket" -> Bitbucket!DismissReview(page, id, refused)
    [] host = "bitbucket-server" -> Server!DismissReview(page, id, refused)
    [] OTHER -> Azure!DismissReview(page, id, refused)

CommentIds(reviews, refused) ==
  CASE host = "github" -> GitHub!ListReviewCommentIds(page, reviews, refused)
    [] host = "gitlab" -> GitLab!ListReviewCommentIds(page, reviews, refused)
    [] host = "bitbucket" -> Bitbucket!ListReviewCommentIds(page, reviews, refused)
    [] host = "bitbucket-server" -> Server!ListReviewCommentIds(page, reviews, refused)
    [] OTHER -> Azure!ListReviewCommentIds(page, reviews, refused)

DeleteComment(id, refused) ==
  CASE host = "github" -> GitHub!DeleteReviewComment(page, id, refused)
    [] host = "gitlab" -> GitLab!DeleteReviewComment(page, id, refused)
    [] host = "bitbucket" -> Bitbucket!DeleteReviewComment(page, id, refused)
    [] host = "bitbucket-server" -> Server!DeleteReviewComment(page, id, refused)
    [] OTHER -> Azure!DeleteReviewComment(page, id, refused)

CreateRow(h, refused) ==
  CASE host = "github" -> GitHub!CreateCheckRun(page, h, refused)
    [] host = "gitlab" -> GitLab!CreateCheckRun(page, h, refused)
    [] host = "bitbucket" -> Bitbucket!CreateCheckRun(page, h, refused)
    [] host = "bitbucket-server" -> Server!CreateCheckRun(page, h, refused)
    [] OTHER -> Azure!CreateCheckRun(page, h, refused)

UpdateRow(p, h, conclusion, refused) ==
  CASE host = "github" -> GitHub!UpdateCheckRun(p, h, conclusion, refused)
    [] host = "gitlab" -> GitLab!UpdateCheckRun(p, h, conclusion, refused)
    [] host = "bitbucket" -> Bitbucket!UpdateCheckRun(p, h, conclusion, refused)
    [] host = "bitbucket-server" -> Server!UpdateCheckRun(p, h, conclusion, refused)
    [] OTHER -> Azure!UpdateCheckRun(p, h, conclusion, refused)

(* A call fails in one way, as long as the bound allows. *)
Refusals(ways) == {{}} \cup (IF faults < MaxFaults THEN {{w} : w \in ways} ELSE {})

Faulted(refused) ==
  /\ failed' = failed \cup refused
  /\ faults' = faults + Cardinality(refused)

Unreviewed ==
  /\ page = GitHub!EmptyPage(Heads)
  /\ ledger = {} /\ run = Idle /\ cmd = Idle
  /\ failed = {} /\ faults = 0
  /\ last = [h \in Heads |-> "none"] /\ summaries = {}
  /\ counts = [runs |-> 0, resolves |-> 0]

Init ==
  /\ host \in Hosts /\ blockOn \in BOOLEAN
  /\ head = 1 /\ code \in SUBSET Findings
  /\ Unreviewed

(* The author pushes a head that has other findings. *)
Push(to) ==
  /\ head < MaxHeads /\ to # code
  /\ head' = head + 1 /\ code' = to
  /\ UNCHANGED <<host, blockOn, page, ledger, run, cmd, failed, faults, last, summaries, counts>>

(***************************************************************************)
(* The review.                                                             *)
(***************************************************************************)
First(ids) == CHOOSE i \in ids : \A j \in ids : i <= j

RunGoesTo(to) == run' = [run EXCEPT !.at = to]

(* A run opens the head's row; a summary then writes the description and
   closes the row, and posts nothing. *)
Start(kind, refused) ==
  /\ run = Idle /\ counts.runs < MaxRuns
  /\ LET row == CreateRow(head, refused)
     IN /\ page' = row.page
        /\ run' = [at |-> IF kind = "summary" THEN "summary" ELSE "review", kind |-> kind, head |-> head,
                   row |-> row.value, found |-> {}, carried |-> {}, resolved |-> {}, known |-> TRUE,
                   post |-> {}, remove |-> {}, seen |-> {}, raced |-> cmd # Idle]
  /\ counts' = [counts EXCEPT !.runs = @ + 1]
  /\ Faulted(refused)
  /\ UNCHANGED <<host, blockOn, head, code, ledger, cmd, last, summaries>>

(* The run closes its row; when the host fails the call, the failure is
   logged. *)
CloseRow(conclusion, refused) ==
  page' = IF run.row = 0 THEN page ELSE UpdateRow(page, run.head, conclusion, refused).page

RunSummaryOnly(refused) ==
  /\ run.at = "summary"
  /\ CloseRow("success", refused)
  /\ run' = Idle /\ summaries' = summaries \cup {run.head}
  /\ Faulted(refused)
  /\ UNCHANGED <<host, blockOn, head, code, ledger, cmd, last, counts>>

(* The review finds some of what the code has, and folds it with the record
   of earlier reviews if it can read it: what is open there and gone from the
   code is resolved, what is there still is carried. *)
Fold(found, refused) ==
  /\ run.at = "review" /\ found \subseteq code
  /\ LET known == "ledger" \notin refused
         open == IF known THEN ledger ELSE {}
         told == run.kind = "webhook" /\ host = "github"
     IN run' = [run EXCEPT !.at = CASE run.kind = "review" -> "clear" [] told -> "reconcile" [] OTHER -> "post",
                           !.found = found, !.known = known, !.post = found,
                           !.carried = (open \ found) \cap code, !.resolved = open \ code]
  /\ Faulted(refused)
  /\ UNCHANGED <<host, blockOn, head, code, page, ledger, cmd, last, summaries, counts>>

WantsBlock == blockOn /\ run.found \cup run.carried # {}

(* Mutant: a carried finding does not count. *)
MutantRequestChanges == blockOn /\ run.found # {} /\ Capability.blockingReview

RequestChanges == WantsBlock /\ Capability.blockingReview

(* What is on the page already stays there with its replies: of the
   comments on a finding raised again the oldest is kept, and a comment on
   a finding that is not goes only if the finding was resolved. *)
KeptComment(existing, fp) == CHOOSE c \in existing : c.fp = fp /\ \A d \in existing : d.fp = fp => c.id <= d.id

(* Mutants: every comment on a finding that is not raised again goes; what is
   there is not looked for. *)
MutantRemovesUnraised(existing, incoming, resolved) ==
  [post |-> incoming \ {c.fp : c \in existing}, remove |-> {c.id : c \in {d \in existing : d.fp \notin incoming}}]
MutantPostsAll(existing, incoming, resolved) ==
  [post |-> incoming, remove |-> {c.id : c \in {d \in existing : d.fp \in resolved}}]

ReconcileInlineComments(existing, incoming, resolved) ==
  LET there == {c.fp : c \in existing}
  IN [post |-> incoming \ there,
      remove |-> {c.id : c \in {d \in existing : d.fp \in incoming /\ d # KeptComment(existing, d.fp)}}
                 \cup {c.id : c \in {d \in existing : d.fp \in resolved \ incoming}}]

Reconcile(refused) ==
  /\ run.at = "reconcile"
  /\ LET plan == ReconcileInlineComments(GitHub!ListOwnInlineComments(page, refused), run.found, run.resolved)
     IN run' = [run EXCEPT !.at = "remove", !.post = plan.post, !.remove = plan.remove]
  /\ Faulted(refused)
  /\ UNCHANGED <<host, blockOn, head, code, page, ledger, cmd, last, summaries, counts>>

(* One comment after the other; one that cannot be deleted stays. *)
Remove(refused) ==
  /\ run.at = "remove"
  /\ IF run.remove = {} THEN RunGoesTo("post") /\ UNCHANGED page
     ELSE /\ page' = DeleteComment(First(run.remove), refused).page
          /\ run' = [run EXCEPT !.remove = @ \ {First(run.remove)}]
  /\ Faulted(refused)
  /\ UNCHANGED <<host, blockOn, head, code, ledger, cmd, last, summaries, counts>>

(* A review somebody asked for clears the page first: it dismisses the
   reviews that hold the merge, then deletes their comments.  What it cannot
   clear is left. *)
ClearPrevious(refused) ==
  /\ run.at = "clear"
  /\ LET mine == OwnReviews(refused)
     IN run' = IF mine = {} THEN [run EXCEPT !.at = "post"]
               ELSE [run EXCEPT !.at = "dismiss", !.seen = {n.id : n \in mine},
                                !.remove = {n.id : n \in {m \in mine : m.state = "CHANGES_REQUESTED"}}]
  /\ Faulted(refused)
  /\ UNCHANGED <<host, blockOn, head, code, page, ledger, cmd, last, summaries, counts>>

ClearDismiss(refused) ==
  /\ run.at = "dismiss"
  /\ IF run.remove = {}
     THEN /\ run' = [run EXCEPT !.at = "delete", !.remove = CommentIds(run.seen, refused)]
          /\ UNCHANGED page
     ELSE LET id == First(run.remove)
              answer == Dismiss(id, refused)
            IN /\ page' = answer.page
               /\ run' = IF answer.ok THEN [run EXCEPT !.remove = @ \ {id}] ELSE [run EXCEPT !.at = "post", !.remove = {}]
  /\ Faulted(refused)
  /\ UNCHANGED <<host, blockOn, head, code, ledger, cmd, last, summaries, counts>>

ClearDelete(refused) ==
  /\ run.at = "delete"
  /\ IF run.remove = {} THEN RunGoesTo("post") /\ UNCHANGED page
     ELSE LET id == First(run.remove)
              answer == DeleteComment(id, refused)
            IN /\ page' = answer.page
               /\ run' = IF answer.ok THEN [run EXCEPT !.remove = @ \ {id}] ELSE [run EXCEPT !.at = "post", !.remove = {}]
  /\ Faulted(refused)
  /\ UNCHANGED <<host, blockOn, head, code, ledger, cmd, last, summaries, counts>>

(* The review goes on the page.  The host may take it and its answer be
   lost; then, as when it refuses, the run fails and its row says so. *)
Post(refused) ==
  /\ run.at = "post"
  /\ LET review == [event |-> IF RequestChanges THEN "REQUEST_CHANGES" ELSE "COMMENT", comments |-> run.post]
         answer == PostReview(review, refused)
     IN /\ page' = answer.page
        /\ RunGoesTo(IF answer.ok /\ "answer" \notin refused THEN "finish" ELSE "fail")
        /\ last' = IF answer.ok THEN [last EXCEPT ![run.head] = IF WantsBlock THEN "block" ELSE "pass"] ELSE last
  /\ Faulted(refused)
  /\ UNCHANGED <<host, blockOn, head, code, ledger, cmd, summaries, counts>>

Fail(refused) ==
  /\ run.at = "fail"
  /\ CloseRow("neutral", refused)
  /\ run' = Idle
  /\ Faulted(refused)
  /\ UNCHANGED <<host, blockOn, head, code, ledger, cmd, last, summaries, counts>>

FinishRow(refused) ==
  /\ run.at = "finish"
  /\ CloseRow(IF RequestChanges THEN "failure" ELSE "success", refused)
  /\ RunGoesTo("save")
  /\ Faulted(refused)
  /\ UNCHANGED <<host, blockOn, head, code, ledger, cmd, last, summaries, counts>>

(* The record of the open findings is written last, and only if it was
   read. *)
SaveLedger(refused) ==
  /\ run.at = "save"
  /\ ledger' = IF run.known /\ refused = {} THEN run.found \cup run.carried ELSE ledger
  /\ run' = Idle
  /\ Faulted(refused)
  /\ UNCHANGED <<host, blockOn, head, code, page, cmd, last, summaries, counts>>

(***************************************************************************)
(* "@cavixcode resolve".                                                   *)
(***************************************************************************)
ResolveList(refused) ==
  /\ cmd = Idle /\ counts.resolves < MaxResolves[host]
  /\ LET mine == OwnReviews(refused)
     IN cmd' = [at |-> "dismiss", seen |-> {n.id : n \in mine},
                todo |-> {n.id : n \in {m \in mine : m.state = "CHANGES_REQUESTED"}}]
  /\ counts' = [counts EXCEPT !.resolves = @ + 1]
  /\ run' = IF run = Idle THEN run ELSE [run EXCEPT !.raced = TRUE]
  /\ Faulted(refused)
  /\ UNCHANGED <<host, blockOn, head, code, page, ledger, last, summaries>>

(* A call that throws ends the command. *)
ResolveDismiss(refused) ==
  /\ cmd.at = "dismiss"
  /\ IF cmd.todo = {}
     THEN cmd' = [cmd EXCEPT !.at = "delete", !.todo = CommentIds(cmd.seen, refused)] /\ UNCHANGED page
     ELSE LET id == First(cmd.todo)
              answer == Dismiss(id, refused)
            IN page' = answer.page /\ cmd' = IF answer.ok THEN [cmd EXCEPT !.todo = @ \ {id}] ELSE Idle
  /\ Faulted(refused)
  /\ UNCHANGED <<host, blockOn, head, code, ledger, run, last, summaries, counts>>

ResolveDelete(refused) ==
  /\ cmd.at = "delete" /\ cmd.todo # {}
  /\ LET id == First(cmd.todo)
         answer == DeleteComment(id, refused)
       IN page' = answer.page /\ cmd' = IF answer.ok THEN [cmd EXCEPT !.todo = @ \ {id}] ELSE Idle
  /\ Faulted(refused)
  /\ UNCHANGED <<host, blockOn, head, code, ledger, run, last, summaries, counts>>

ResolveLedger(refused) ==
  /\ cmd.at = "delete" /\ cmd.todo = {}
  /\ ledger' = IF refused = {} THEN {} ELSE ledger
  /\ cmd' = Idle
  /\ Faulted(refused)
  /\ UNCHANGED <<host, blockOn, head, code, page, run, last, summaries, counts>>

Next ==
  \/ \E to \in SUBSET Findings : Push(to)
  \/ \E kind \in Kinds : \E refused \in Refusals({"row"}) : Start(kind, refused)
  \/ \E refused \in Refusals({"row"}) : RunSummaryOnly(refused)
  \/ \E found \in SUBSET Findings : \E refused \in Refusals({"ledger"}) : Fold(found, refused)
  \/ \E refused \in Refusals({"list", "page"}) : Reconcile(refused)
  \/ \E refused \in Refusals({"delete"}) : Remove(refused)
  \/ \E refused \in Refusals({"list"}) : ClearPrevious(refused)
  \/ \E refused \in Refusals({"dismiss", "list"}) : ClearDismiss(refused)
  \/ \E refused \in Refusals({"delete"}) : ClearDelete(refused)
  \/ \E refused \in Refusals({"review", "answer", "refs", "flag"} \cup Findings) : Post(refused)
  \/ \E refused \in Refusals({"row"}) : Fail(refused)
  \/ \E refused \in Refusals({"row"}) : FinishRow(refused)
  \/ \E refused \in Refusals({"save"}) : SaveLedger(refused)
  \/ \E refused \in Refusals({"list"}) : ResolveList(refused)
  \/ \E refused \in Refusals({"dismiss", "list"}) : ResolveDismiss(refused)
  \/ \E refused \in Refusals({"delete"}) : ResolveDelete(refused)
  \/ \E refused \in Refusals({"save"}) : ResolveLedger(refused)

Spec == Init /\ [][Next]_vars
-----------------------------------------------------------------------------
TypeOK ==
  /\ host \in GitHub!Platforms /\ blockOn \in BOOLEAN /\ head \in Heads /\ code \subseteq Findings
  /\ page.rows \in [Heads -> GitHub!RowStates]
  /\ ledger \subseteq Findings
  /\ last \in [Heads -> {"none", "pass", "block"}]

OnLine(fp) == {c \in page.inline : c.fp = fp}

(* A finding has one comment.  Never two on GitHub, however often it is found
   and whichever reviews and answers are lost, as long as the page can be
   listed and what it says to delete is deleted; and one, new or kept, when
   the review that found it is on the page, unless the host refused it or a
   resolve ran beside the review (reconcileInlineComments, clearPrevious). *)
OneCommentEach ==
  /\ host = "github" /\ failed \cap {"list", "page", "delete", "dismiss"} = {}
       => \A f \in Findings : Cardinality(OnLine(f)) <= 1
  /\ run.at = "finish" /\ ~run.raced /\ "refs" \notin failed
       => run.found \subseteq {c.fp : c \in page.inline} \cup failed

(* A review of a push, beside which no resolve runs, deletes no comment of a
   finding that is still there: those it deletes were fixed, or have an older
   copy that stays. *)
RepliesSurvive ==
  [][run # Idle /\ run.kind = "webhook" /\ ~run.raced =>
       \A c \in page.inline : c \notin page'.inline =>
         c.fp \in run.resolved \/ \E d \in page'.inline : d.fp = c.fp /\ d.id < c.id]_vars

(* A head's row is green although its last review asked for a block only on
   a host where no review can hold the merge, after a summary was written
   for that head, when the row could not be written, or when the post failed
   or its answer was lost: only GitHub's rows tell a failed run from success
   (check.finish, and statusPayload of the other hosts). *)
GreenOnlyIfAsked ==
  \A h \in Heads : page.rows[h] = "success" /\ last[h] = "block" =>
    \/ ~Capability.blockingReview
    \/ h \in summaries
    \/ "row" \in failed
    \/ failed \cap {"review", "answer"} # {} /\ host # "github"
=============================================================================
