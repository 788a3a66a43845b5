--------------------------- MODULE PullDescription --------------------------
(***************************************************************************)
(* Cavix's summary in the description of a pull request: the splice of     *)
(* buildPullDescription (services/orchestrator/src/poster/poster.ts), the  *)
(* read and the write around it (runReview and runSummaryOnly of           *)
(* reviewWorkflow.ts, updatePullBody of each host's client), and the       *)
(* author, who edits title and description at any time.                    *)
(*                                                                         *)
(* A description is a sequence of pieces of the author's text, the two     *)
(* marks, and between them a summary.                                      *)
(***************************************************************************)
EXTENDS Naturals, Sequences, FiniteSets, SequencesExt

CONSTANTS Hosts, Pieces,
          MaxWrites,  \* bound: summaries written
          MaxEdits    \* bound: edits of the author

VARIABLES
  host,
  body, title, version,  \* the pull request
  writer,                \* the review that has read the description
  edits, writes,
  tampered,              \* history: the author has removed a mark
  overlapped             \* history: an edit came between a read and its write

vars == <<host, body, title, version, writer, edits, writes, tampered, overlapped>>

START == "start"
END == "end"
Summary == "summary"
Block == <<START, Summary, END>>
Marks == {START, Summary, END}

\* What the constants are.
PullDescriptionAssumption == Pieces \cap Marks = {}

IndexOf(seq, mark) ==
  IF mark \in Range(seq) THEN CHOOSE i \in DOMAIN seq : seq[i] = mark /\ \A j \in 1..(i - 1) : seq[j] # mark ELSE 0

(* Mutant: the order of the marks is not looked at. *)
MutantBuild(existing) ==
  LET start == IndexOf(existing, START)
      end == IndexOf(existing, END)
  IN IF start # 0 /\ end # 0
     THEN SubSeq(existing, 1, start - 1) \o Block \o SubSeq(existing, end + 1, Len(existing))
     ELSE Block

(* The text between the first mark of each kind is replaced; if they are not
   there in this order the block goes below what the author wrote. *)
BuildPullDescription(existing) ==
  LET start == IndexOf(existing, START)
      end == IndexOf(existing, END)
  IN IF start # 0 /\ end > start
     THEN SubSeq(existing, 1, start - 1) \o Block \o SubSeq(existing, end + 1, Len(existing))
     ELSE existing \o Block

NoWriter == [at |-> "idle"]

Init ==
  /\ host \in Hosts
  /\ body = <<>> /\ title = 0 /\ version = 0
  /\ writer = NoWriter /\ edits = 0 /\ writes = 0
  /\ tampered = FALSE /\ overlapped = FALSE

(* The author adds a piece anywhere but inside the block, removes one, or
   removes a mark. *)
InBlock(i) == \E s \in 1..(i - 1), e \in i..Len(body) : body[s] = START /\ body[e] = END

Edited ==
  /\ edits' = edits + 1 /\ version' = version + 1
  /\ overlapped' = (overlapped \/ writer # NoWriter)
  /\ UNCHANGED <<host, writer, writes>>

Write(piece, at) ==
  /\ edits < MaxEdits /\ piece \notin Range(body) /\ ~InBlock(at)
  /\ body' = InsertAt(body, at, piece)
  /\ Edited /\ UNCHANGED <<title, tampered>>

Erase(at) ==
  /\ edits < MaxEdits
  /\ body' = RemoveAt(body, at)
  /\ tampered' = (tampered \/ body[at] \in Marks)
  /\ Edited /\ UNCHANGED title

Rename ==
  /\ edits < MaxEdits
  /\ title' = title + 1
  /\ Edited /\ UNCHANGED <<body, tampered>>

(* A review reads the description and builds the next one; if nothing
   changes there is nothing to write. *)
GetPull ==
  /\ writer = NoWriter /\ writes < MaxWrites
  /\ writer' = [at |-> "write", next |-> BuildPullDescription(body)]
  /\ overlapped' = FALSE
  /\ UNCHANGED <<host, body, title, version, edits, writes, tampered>>

(* GitHub, GitLab and Azure DevOps take the description alone. *)
UpdateDescription ==
  /\ writer.at = "write" /\ host \in {"github", "gitlab", "azure-devops"}
  /\ body' = writer.next
  /\ writer' = NoWriter /\ version' = version + 1 /\ writes' = writes + 1
  /\ UNCHANGED <<host, title, edits, tampered, overlapped>>

(* Bitbucket wants the title with it, so the client reads that first; Data
   Center wants the version too. *)
ReadTitle ==
  /\ writer.at = "write" /\ host \in {"bitbucket", "bitbucket-server"}
  /\ writer' = [at |-> "put", next |-> writer.next, title |-> title, version |-> version]
  /\ UNCHANGED <<host, body, title, version, edits, writes, tampered, overlapped>>

(* A version that is no longer the newest is refused; the review goes on
   without the description. *)
PutPull ==
  /\ writer.at = "put"
  /\ IF host = "bitbucket-server" /\ writer.version # version
     THEN UNCHANGED <<body, title, version>>
     ELSE body' = writer.next /\ title' = writer.title /\ version' = version + 1
  /\ writer' = NoWriter /\ writes' = writes + 1
  /\ UNCHANGED <<host, edits, tampered, overlapped>>

Next ==
  \/ \E p \in Pieces : \E i \in 1..(Len(body) + 1) : Write(p, i)
  \/ \E i \in DOMAIN body : Erase(i)
  \/ Rename
  \/ GetPull \/ UpdateDescription \/ ReadTitle \/ PutPull

Spec == Init /\ [][Next]_vars
-----------------------------------------------------------------------------
TypeOK ==
  /\ host \in Hosts /\ body \in Seq(Pieces \cup Marks)
  /\ title \in Nat /\ version \in Nat /\ tampered \in BOOLEAN /\ overlapped \in BOOLEAN

(* What the author wrote: the pieces, each there once, and their order. *)
AuthorText(b) ==
  [pieces |-> Pieces \cap Range(b),
   order |-> {pair \in Pieces \X Pieces : \E i, j \in DOMAIN b : i < j /\ b[i] = pair[1] /\ b[j] = pair[2]}]

(* Writing the summary never costs the author a word, nor puts two summaries
   there: a piece is lost, brought back, or moved by a write only if the
   author edited between the read and the write, or once a mark was removed
   (buildPullDescription: "preserving what the author wrote").  Data
   Center's version keeps the title, too, from being undone by a write. *)
AuthorTextKept ==
  [][writes' # writes =>
       /\ ~tampered => /\ AuthorText(body') = AuthorText(body) \/ overlapped
                       /\ Cardinality({i \in DOMAIN body' : body'[i] = START}) <= 1
       /\ host # "bitbucket" => title' = title]_vars
=============================================================================
