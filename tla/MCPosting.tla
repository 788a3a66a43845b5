------------------------------ MODULE MCPosting ------------------------------
(***************************************************************************)
(* What Cavix writes on a pull request, in one run: its reviews and rows   *)
(* (Posting, whose variables these are), its summary in the description,   *)
(* its answers and the pause.  The three share the host and nothing else;  *)
(* one is chosen at the start and the others stay.                         *)
(***************************************************************************)
EXTENDS Posting, TLC

CONSTANTS
  Pieces, MaxWrites, MaxEdits,                                           \* the description
  Workers, Authors, CommandNames, Gates, StatusPage, MaxJobs, MaxChat    \* the commands

VARIABLES
  part,
  body, title, version, writer, edits, writes, tampered, overlapped,
  notes, next, work, asked, reviewed, marred, count

D == INSTANCE PullDescription
C == INSTANCE Commands WITH PageSize <- StatusPage

ASSUME PostingAssumption /\ D!PullDescriptionAssumption /\ C!CommandsAssumption

descriptionVars == <<body, title, version, writer, edits, writes, tampered, overlapped>>
commandVars == <<notes, next, work, asked, reviewed, marred, count>>
reviewVars == <<blockOn, head, code, page, ledger, run, cmd, failed, faults, last, summaries, counts>>
pullVars == <<part, host, reviewVars, descriptionVars, commandVars>>

(* The parts not chosen start in one state. *)
PullInit ==
  /\ part \in {"review", "description", "commands"}
  /\ Init /\ D!Init /\ C!Init
  /\ IF part = "review" THEN code # {} ELSE code = {} /\ ~blockOn

ReviewStep == part = "review" /\ Next /\ UNCHANGED <<part, descriptionVars, commandVars>>
DescriptionStep == part = "description" /\ D!Next /\ UNCHANGED <<part, reviewVars, commandVars>>
CommandStep == part = "commands" /\ C!Next /\ UNCHANGED <<part, reviewVars, descriptionVars>>

PullNext == ReviewStep \/ DescriptionStep \/ CommandStep

PullSpec == PullInit /\ [][PullNext]_pullVars

(* A developer of the project, and somebody else. *)
Commenters == {[developer |-> d, blocked |-> FALSE, readable |-> TRUE] : d \in BOOLEAN}

(* Resolve is said on GitHub alone. *)
OneOnGitHub == [h \in Hosts |-> IF h = "github" THEN 1 ELSE 0]

(* The workers differ in nothing. *)
Symmetry == Permutations(Workers)

AuthorTextKept == D!AuthorTextKept
MarkIsWhatWasAsked == C!MarkIsWhatWasAsked
=============================================================================
