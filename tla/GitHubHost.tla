----------------------------- MODULE GitHubHost -----------------------------
(***************************************************************************)
(* RestGitHubClient (services/orchestrator/src/github/rest.ts).            *)
(***************************************************************************)
EXTENDS CodeHost

FullCapabilities == Capabilities(TRUE, TRUE, TRUE)

PostReview(page, review, refused) == PostWhole(page, review, refused)

ListOwnReviews(page, refused) == Listed(ReviewNotes(page), refused)

(* The review no longer holds the merge; a refusal is no error. *)
DismissReview(page, id, refused) ==
  IF "dismiss" \in refused THEN Thrown(page)
  ELSE Done([page EXCEPT !.notes = {IF n.id = id THEN [n EXCEPT !.state = "DISMISSED"] ELSE n : n \in @}], id)

ListReviewCommentIds(page, reviews, refused) ==
  {c.id : c \in {d \in Listed(page.inline, refused) : d.note \in reviews}}

(* Every page of comments, up to ten, and what was read if one fails. *)
ListOwnInlineComments(page, refused) ==
  CASE "list" \in refused -> {}
    [] "list" \notin refused /\ "page" \in refused -> Oldest(page.inline, PageSize)
    [] OTHER -> Oldest(page.inline, 10 * PageSize)

DeleteReviewComment(page, id, refused) ==
  IF "delete" \in refused THEN Thrown(page) ELSE Done(Without(page, id), id)

(* 0 when there is no commit or the app may not write checks. *)
CreateCheckRun(page, head, refused) ==
  IF "row" \in refused THEN Done(page, 0) ELSE Done(WithRow(page, head, "running"), 1)

UpdateCheckRun(page, head, conclusion, refused) ==
  IF "row" \in refused THEN Thrown(page) ELSE Done(WithRow(page, head, conclusion), 1)

(* The edge has checked the author's rights already. *)
CommandsAllowed(author) == TRUE

(* The newest comment with the mark among the first page, with its text. *)
FindComment(notes, marked, refused) == Latest(Listed(notes, refused) \cap marked, 1)
DeletesComments == TRUE
GivesBody == TRUE

=============================================================================
