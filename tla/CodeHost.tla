------------------------------ MODULE CodeHost ------------------------------
(***************************************************************************)
(* What the hosts' clients have in common                                  *)
(* (services/orchestrator/src/github/client.ts): a pull request's page and *)
(* the ways of changing it.  Each client is a module of its own with the   *)
(* same operators.  An operator takes the page and the set of things the   *)
(* host refuses in that call, and returns [ok, page, value]; ok is FALSE   *)
(* when the client throws.                                                 *)
(*                                                                         *)
(*   notes   comments on the pull request: [id, kind, state]       *)
(*   inline  comments on lines: [id, fp, note]; note is the review they    *)
(*           came with                                                     *)
(*   flag    Cavix holds the merge by a flag of its own (Bitbucket)        *)
(*   rows    the check row or status of each commit                        *)
(*   next    the next id                                                   *)
(***************************************************************************)
EXTENDS Naturals, Sequences, FiniteSets, SequencesExt

CONSTANT PageSize   \* entries the host lists in one page

Capabilities(checks, reactions, blocking) ==
  [checkRuns |-> checks, reactions |-> reactions, blockingReview |-> blocking]

Platforms == {"github", "gitlab", "bitbucket", "bitbucket-server", "azure-devops"}

RowStates == {"none", "running", "success", "failure", "neutral"}

EmptyPage(heads) ==
  [notes |-> {}, inline |-> {}, flag |-> FALSE, rows |-> [h \in heads |-> "none"], next |-> 1]

Done(page, value) == [ok |-> TRUE, page |-> page, value |-> value]
Thrown(page) == [ok |-> FALSE, page |-> page, value |-> 0]

(* The n lowest ids, or the n highest. *)
Oldest(set, n) == {c \in set : Cardinality({d \in set : d.id < c.id}) < n}
Latest(set, n) == {c \in set : Cardinality({d \in set : d.id > c.id}) < n}

(* A review whose parts stand or fall together. *)
PostWhole(page, review, refused) ==
  LET comments == SetToSeq(review.comments)
      state == IF review.event = "REQUEST_CHANGES" THEN "CHANGES_REQUESTED" ELSE "COMMENTED"
  IN IF refused \cap ({"review"} \cup review.comments) # {} THEN Thrown(page)
     ELSE Done([page EXCEPT
            !.notes = @ \cup {[id |-> page.next, kind |-> "review", state |-> state]},
            !.inline = @ \cup {[id |-> page.next + i, note |-> page.next, fp |-> comments[i]] : i \in DOMAIN comments},
            !.next = @ + 1 + Len(comments)], page.next)

(* A comment, then each comment on a line by itself: those refused are
   dropped. *)
PostInPieces(page, review, refused) ==
  LET taken == [review EXCEPT !.comments = @ \ refused, !.event = "COMMENT"]
  IN PostWhole(page, taken, refused \cap {"review"})

(* A page of comments; the client answers with none when the call fails. *)
Listed(set, refused) == IF "list" \in refused THEN {} ELSE Oldest(set, PageSize)

Without(page, id) == [page EXCEPT !.inline = {c \in @ : c.id # id}]
WithRow(page, head, state) == [page EXCEPT !.rows[head] = state]

ReviewNotes(page) == {n \in page.notes : n.kind = "review"}
=============================================================================
