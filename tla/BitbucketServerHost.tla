------------------------ MODULE BitbucketServerHost -------------------------
(***************************************************************************)
(* RestBitbucketServerClient, for Bitbucket Data Center                    *)
(* (services/orchestrator/src/bitbucket/server.ts).                        *)
(***************************************************************************)
EXTENDS CodeHost

ServerCapabilities == Capabilities(TRUE, FALSE, TRUE)

(* The participant whose status is set is the one the token names. *)
SetParticipantStatus(page, flag, refused) == IF "whoami" \in refused THEN page ELSE [page EXCEPT !.flag = flag]

PostReview(page, review, refused) ==
  LET posted == PostInPieces(page, review, refused)
  IN IF posted.ok /\ review.event = "REQUEST_CHANGES" /\ "flag" \notin refused
     THEN [posted EXCEPT !.page = SetParticipantStatus(@, TRUE, refused)] ELSE posted

(* The newest activities of the pull request, as one list. *)
ActivityComments(set, refused) == IF "list" \in refused THEN {} ELSE Latest(set, 2 * PageSize)

ListOwnReviews(page, refused) ==
  {[n EXCEPT !.state = "CHANGES_REQUESTED"] : n \in ActivityComments(ReviewNotes(page), refused)}

DismissReview(page, id, refused) ==
  Done(IF "dismiss" \in refused THEN page ELSE SetParticipantStatus(page, FALSE, refused), id)

ListReviewCommentIds(page, reviews, refused) == {c.id : c \in ActivityComments(page.inline, refused)}
DeleteReviewComment(page, id, refused) == Done(IF "delete" \in refused THEN page ELSE Without(page, id), id)

CreateCheckRun(page, head, refused) ==
  IF "row" \in refused THEN Done(page, 0) ELSE Done(WithRow(page, head, "running"), 1)

StatusOf(conclusion) == IF conclusion = "failure" THEN "failure" ELSE "success"

UpdateCheckRun(page, head, conclusion, refused) ==
  Done(IF "row" \in refused THEN page ELSE WithRow(page, head, StatusOf(conclusion)), 1)

CommandsAllowed(author) == FALSE

FindComment(notes, marked, refused) == Latest(ActivityComments(notes, refused) \cap marked, 1)
DeletesComments == FALSE
GivesBody == FALSE

=============================================================================
