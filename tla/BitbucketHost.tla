--------------------------- MODULE BitbucketHost ----------------------------
(***************************************************************************)
(* RestBitbucketClient, for Bitbucket Cloud                                *)
(* (services/orchestrator/src/bitbucket/rest.ts).                          *)
(***************************************************************************)
EXTENDS CodeHost

BitbucketCapabilities == Capabilities(TRUE, FALSE, TRUE)

(* The comments first; then the flag that holds the merge, if the host
   takes it. *)
PostReview(page, review, refused) ==
  LET posted == PostInPieces(page, review, refused)
  IN IF posted.ok /\ review.event = "REQUEST_CHANGES" /\ "flag" \notin refused
     THEN [posted EXCEPT !.page.flag = TRUE] ELSE posted

(* The flag is not on a comment, so every review stands for it. *)
ListOwnReviews(page, refused) == Listed({[n EXCEPT !.state = "CHANGES_REQUESTED"] : n \in ReviewNotes(page)}, refused)

DismissReview(page, id, refused) == Done(IF "dismiss" \in refused THEN page ELSE [page EXCEPT !.flag = FALSE], id)

ListReviewCommentIds(page, reviews, refused) == {c.id : c \in Listed(page.inline, refused)}
DeleteReviewComment(page, id, refused) == Done(IF "delete" \in refused THEN page ELSE Without(page, id), id)

CreateCheckRun(page, head, refused) ==
  IF "row" \in refused THEN Done(page, 0) ELSE Done(WithRow(page, head, "running"), 1)

StatusOf(conclusion) == IF conclusion = "failure" THEN "failure" ELSE "success"

UpdateCheckRun(page, head, conclusion, refused) ==
  Done(IF "row" \in refused THEN page ELSE WithRow(page, head, StatusOf(conclusion)), 1)

(* There is no way to ask, so nobody may. *)
CommandsAllowed(author) == FALSE

FindComment(notes, marked, refused) == Latest(Listed(notes, refused) \cap marked, 1)
DeletesComments == FALSE
GivesBody == FALSE

=============================================================================
