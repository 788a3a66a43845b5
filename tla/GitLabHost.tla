----------------------------- MODULE GitLabHost -----------------------------
(***************************************************************************)
(* RestGitLabClient (services/orchestrator/src/gitlab/rest.ts).            *)
(***************************************************************************)
EXTENDS CodeHost

GitLabCapabilities == Capabilities(TRUE, TRUE, FALSE)

(* Without the diff's three commits no comment can be put on a line. *)
PostReview(page, review, refused) ==
  PostInPieces(page, IF "refs" \in refused THEN [review EXCEPT !.comments = {}] ELSE review, refused)

ListOwnReviews(page, refused) == Listed({[n EXCEPT !.state = "COMMENTED"] : n \in ReviewNotes(page)}, refused)

(* A note holds no merge. *)
DismissReview(page, id, refused) == Done(page, id)

ListReviewCommentIds(page, reviews, refused) == {c.id : c \in Listed(page.inline, refused)}

DeleteReviewComment(page, id, refused) == Done(IF "delete" \in refused THEN page ELSE Without(page, id), id)

CreateCheckRun(page, head, refused) ==
  IF "row" \in refused THEN Done(page, 0) ELSE Done(WithRow(page, head, "running"), 1)

(* A status has no neutral state: it is failed or a success. *)
StatusOf(conclusion) == IF conclusion = "failure" THEN "failure" ELSE "success"

UpdateCheckRun(page, head, conclusion, refused) ==
  Done(IF "row" \in refused THEN page ELSE WithRow(page, head, StatusOf(conclusion)), 1)

(* Members with Developer access or above; nobody when it cannot be read. *)
CommandsAllowed(author) == author.developer /\ ~author.blocked /\ author.readable

(* The newest note with the mark among the newest ones, without its text. *)
FindComment(notes, marked, refused) ==
  IF "list" \in refused THEN {} ELSE Latest(Latest(notes, PageSize) \cap marked, 1)
DeletesComments == FALSE
GivesBody == FALSE

=============================================================================
