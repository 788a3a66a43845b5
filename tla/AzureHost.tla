----------------------------- MODULE AzureHost ------------------------------
(***************************************************************************)
(* RestAzureDevOpsClient (services/orchestrator/src/azure/rest.ts).        *)
(***************************************************************************)
EXTENDS CodeHost

CONSTANT MaxDiffFiles   \* files the client reads for one diff

AzureCapabilities == Capabilities(TRUE, FALSE, FALSE)

IsFileChange(c) == ~c.folder /\ c.kind # "none"

(* Both versions of a file, as far as the change has them.  Readable is
   what the host gives of it: both versions, none, or an error. *)
ReadVersions(changes) == {c \in changes : c.kind \in {"add", "delete"} \/ c.readable}

(* The host gives no diff: the client reads both versions of the first
   MaxDiffFiles changed files and computes it.  Every file it leaves out is
   named with its reason. *)
FetchPullDiff(changes, truncated) ==
  LET files == {c \in changes : IsFileChange(c)}
      budgeted == {c \in files : Cardinality({d \in files : d.order < c.order}) < MaxDiffFiles}
      versions == ReadVersions(budgeted)
      rendered == {c \in versions : c.hunks}
  IN [diff |-> {c.path : c \in rendered},
      limitations |-> {c.path : c \in files \ rendered} \cup (IF truncated THEN {"(some files)"} ELSE {})]

PostReview(page, review, refused) == PostInPieces(page, review, refused)

(* Every thread of the pull request is listed. *)
ListThreads(set, refused) == IF "list" \in refused THEN {} ELSE set

ListOwnReviews(page, refused) == {[n EXCEPT !.state = "COMMENTED"] : n \in ListThreads(ReviewNotes(page), refused)}
DismissReview(page, id, refused) == Done(page, id)
ListReviewCommentIds(page, reviews, refused) == {c.id : c \in ListThreads(page.inline, refused)}

(* The thread is listed again to find its first comment. *)
DeleteReviewComment(page, id, refused) ==
  Done(IF refused \cap {"list", "delete"} # {} THEN page ELSE Without(page, id), id)

CreateCheckRun(page, head, refused) ==
  IF "row" \in refused THEN Done(page, 0) ELSE Done(WithRow(page, head, "running"), 1)

StatusOf(conclusion) == IF conclusion = "failure" THEN "failure" ELSE "success"

UpdateCheckRun(page, head, conclusion, refused) ==
  Done(IF "row" \in refused THEN page ELSE WithRow(page, head, StatusOf(conclusion)), 1)

CommandsAllowed(author) == FALSE

FindComment(notes, marked, refused) == Latest(ListThreads(notes, refused) \cap marked, 1)
DeletesComments == FALSE
GivesBody == FALSE

=============================================================================
