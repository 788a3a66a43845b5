------------------------------ MODULE Findings ------------------------------
(***************************************************************************)
(* What runReview does with findings between the diff and the ledger: the  *)
(* deep review (packages/pipeline, critic, adjudicator) or the one-model   *)
(* fallback, the consumers in other repositories, the CI history, the      *)
(* owner's pre-merge rules, and the sandbox that proves or refutes what a  *)
(* model claimed (packages/verifier), each stage fail-soft.                *)
(*                                                                         *)
(* A finding is [of, path, line, sev, cat, topic, source, conf, immutable, *)
(* resolves]: "of" names what was raised and merged into it, confidence    *)
(* is in percent, and resolves says that every symbol its text names is in *)
(* the code the review read.                                               *)
(***************************************************************************)
EXTENDS Integers, Sequences, SequencesExt, FiniteSets

CONSTANTS
  Diffs,              \* the changed files that exist at the head of a pull request, as its diff orders them
  ScannerFindings,    \* what the secret scanner and the built-in rules may find, a sequence
  AgentReplies,       \* what the agents may answer, one after the other: NoReply or a sequence of findings
  SingleReplies,      \* and the one-model pass, which has no summary of its own
  NoReply,
  ImpactFindings, CiFindings,   \* of the contract graph and of the CI history
  RuleBreaks,         \* sets of the violations of the owner's rule, on lines the change adds
  Learned,            \* what a workspace may have learned: [threshold, verify], by category
  MaxSourceFiles      \* MAX_SOURCE_FILES

VARIABLES
  stage, findings, learned,
  diffed, readable,   \* the changed files, and those of them that the host hands out
  backend,            \* the sandbox
  rule,               \* the outcome of the owner's rule
  queue, surfaced, suppressed,   \* the loop of verifyAndFilter
  alive, checks,      \* sandboxes never torn down; the retention collector
  raised, gone        \* history: what completed stages raised; what left, and why

vars == <<stage, findings, learned, diffed, readable, backend, rule, queue, surfaced, suppressed, alive, checks, raised, gone>>

High == 4      \* SEVERITY_RANK
HighConfidence == 80
Gate == 50
ConfidenceThreshold == 50
RepairableFactor == 60
LineTolerance == 2
Detectors == {"secret", "sast", "linter", "telemetry"}

Elements(s) == {s[i] : i \in DOMAIN s}
Ids(s) == UNION {f.of : f \in Elements(s)}
Larger(a, b) == IF a >= b THEN a ELSE b
Smaller(a, b) == IF a <= b THEN a ELSE b

Changed == Elements(diffed)

(* The first files of the list, and of those the ones that can be read. *)
FetchSources(paths) == Elements(SubSeq(paths, 1, Smaller(MaxSourceFiles, Len(paths)))) \cap readable

(***************************************************************************)
(* The critic: a model's finding outside the change is unsupported, one    *)
(* that names a symbol nobody has loses confidence.  Facts are exempt.     *)
(***************************************************************************)
Exempt(f) == f.source # "llm" \/ f.immutable
Unsupported(f) == ~Exempt(f) /\ f.path \notin Changed
Screened(f) ==
  IF Exempt(f) \/ Unsupported(f) \/ f.resolves THEN f ELSE [f EXCEPT !.conf = (@ * RepairableFactor) \div 100]

(***************************************************************************)
(* The adjudicator.                                                        *)
(***************************************************************************)
Alike(a, b) ==
  /\ a.path = b.path
  /\ a.line - b.line \in -LineTolerance..LineTolerance
  /\ a.cat = b.cat \/ a.topic = b.topic

ClusterFindings(fs) ==
  FoldLeft(LAMBDA cs, f :
    LET fits == {i \in DOMAIN cs : Alike(cs[i][1], f)}
    IN IF fits = {} THEN Append(cs, <<f>>)
       ELSE [cs EXCEPT ![CHOOSE i \in fits : \A j \in fits : i <= j] = Append(@, f)], <<>>, fs)

Detected(f) == f.source \in Detectors
\* mutant: a detector's finding ranks like a model's
MutantRank(f) == f.sev * 1000 + f.conf

Rank(f) == (IF Detected(f) THEN 100000 ELSE 0) + f.sev * 1000 + f.conf

MergeCluster(c) ==
  LET rep == FoldLeft(LAMBDA best, f : IF Rank(f) > Rank(best) THEN f ELSE best, c[1], c)
      missed == FoldLeft(LAMBDA p, f : (p * (100 - f.conf)) \div 100, 100, SelectSeq(c, LAMBDA f : f.source = "llm"))
      conf == Larger(rep.conf, 100 - missed)
  IN [rep EXCEPT !.of = Ids(c),
                 !.sev = FoldLeft(LAMBDA s, f : Larger(s, f.sev), 1, c),
                 !.conf = IF conf > 99 THEN 99 ELSE conf]

Threshold(f) == IF f.cat \in DOMAIN learned.threshold THEN learned.threshold[f.cat] ELSE ConfidenceThreshold
Reaches(f) == f.conf >= Threshold(f)

BySeverity(fs) == SelectSeq(fs, LAMBDA f : f.sev = 5) \o SelectSeq(fs, LAMBDA f : f.sev = 4)
  \o SelectSeq(fs, LAMBDA f : f.sev = 3) \o SelectSeq(fs, LAMBDA f : f.sev = 2) \o SelectSeq(fs, LAMBDA f : f.sev = 1)

Adjudicate(fs) ==
  LET rest == SelectSeq(fs, LAMBDA f : ~f.immutable /\ ~Unsupported(f))
      clusters == ClusterFindings(rest)
      merged == [i \in DOMAIN clusters |-> MergeCluster(clusters[i])]
      Kept(m) == Detected(m) \/ Reaches(m)
  IN [findings |-> BySeverity(SelectSeq(fs, LAMBDA f : f.immutable) \o SelectSeq(merged, Kept)),
      gone |-> {<<f.of, "critic">> : f \in {g \in Elements(fs) : Unsupported(g)}}
               \cup {<<m.of, "threshold">> : m \in {n \in Elements(merged) : ~Kept(n)}}]

(***************************************************************************)
(* What the models answer.  An agent that fails, or whose answer has no    *)
(* readable finding, abstains; a finding needs a line.                     *)
(***************************************************************************)
ParseReply(fs) == SelectSeq(fs, LAMBDA f : f.line >= 1)
RunAgent(answer) == IF answer = NoReply THEN <<>> ELSE ParseReply(answer)
RunEnsemble(answers) == FoldLeft(LAMBDA fs, a : fs \o RunAgent(a), <<>>, answers)

(* The scanners over the files that could be read, one finding of a rule for a line. *)
RunDeterministic(files, scanned) ==
  FoldLeft(LAMBDA out, f :
    IF \/ f \notin scanned \/ f.path \notin files
       \/ \E g \in Elements(out) : g.path = f.path /\ g.line = f.line /\ g.topic = f.topic
    THEN out ELSE Append(out, f), <<>>, ScannerFindings)

(***************************************************************************)
(* The state of the run.                                                   *)
(***************************************************************************)
Init ==
  /\ stage = "review" /\ findings = <<>>
  /\ learned \in Learned
  /\ diffed \in Diffs
  /\ readable \in SUBSET Changed
  /\ backend \in {"local", "docker", "other"}
  /\ rule = "off"
  /\ queue = <<>> /\ surfaced = <<>> /\ suppressed = {}
  /\ alive = 0 /\ checks = <<>>
  /\ raised = {} /\ gone = {}

Idle == UNCHANGED <<learned, diffed, readable, backend, rule, queue, surfaced, suppressed, alive, checks>>

Raise(fs) == raised' = raised \cup Elements(fs)

(***************************************************************************)
(* makeDeepReviewStep and the summary beside it: either rejects both.  The *)
(* agents read the whole diff, the scanners those first files of a wide    *)
(* change that can be read; with none of them the step rejects.            *)
(***************************************************************************)
DeepReview(scanned, answers) ==
  /\ stage = "review" /\ FetchSources(diffed) # {}
  /\ LET all == RunDeterministic(FetchSources(diffed), scanned) \o RunEnsemble(answers)
         kept == Adjudicate([i \in DOMAIN all |-> Screened(all[i])])
     IN /\ findings' = kept.findings /\ gone' = kept.gone
        /\ Raise(all)
  /\ stage' = "impact"
  /\ Idle

(* The fallback, also when the deep review has nothing to read.  When it
   throws too, so does runReview. *)
SinglePass(reply) ==
  /\ stage = "review" /\ reply # NoReply
  /\ findings' = ParseReply(reply) /\ Raise(ParseReply(reply))
  /\ stage' = "impact"
  /\ Idle /\ UNCHANGED gone

ReviewThrows ==
  /\ stage = "review" /\ stage' = "failed"
  /\ Idle /\ UNCHANGED <<findings, raised, gone>>

(* Stages whose failure is logged and leaves the findings as they are. *)
BlastRadius(found) ==
  /\ stage = "impact" /\ stage' = "ci"
  /\ findings' = found \o findings /\ Raise(found)
  /\ Idle /\ UNCHANGED gone

Regression(found) ==
  /\ stage = "ci" /\ stage' = "rules"
  /\ findings' = findings \o found /\ Raise(found)
  /\ Idle /\ UNCHANGED gone

(***************************************************************************)
(* The owner's rule: unlike the scanners it is skipped when the change has *)
(* too many files, or none of them could be read; it runs over those that  *)
(* could, and passes on what they say.                                     *)
(***************************************************************************)
PreMerge(on, breaks) ==
  /\ stage = "rules" /\ stage' = "verify"
  /\ LET files == IF Len(diffed) > MaxSourceFiles THEN {} ELSE FetchSources(diffed)
         found == SelectSeq(breaks, LAMBDA f : f.path \in files)
     IN /\ rule' = IF ~on THEN "off" ELSE IF files = {} THEN "skipped" ELSE IF found = <<>> THEN "pass" ELSE "fail"
        /\ findings' = IF on THEN found \o findings ELSE findings
        /\ IF on THEN Raise(found) ELSE UNCHANGED raised
  /\ UNCHANGED <<learned, diffed, readable, backend, queue, surfaced, suppressed, alive, checks, gone>>

(***************************************************************************)
(* Verification, one finding after the other, each in a sandbox of its     *)
(* own.                                                                    *)
(***************************************************************************)
Serious(f) == f.sev >= High \/ f.cat = "security"

ShouldVerify(f) ==
  /\ ~Exempt(f)
  /\ \/ Serious(f)
     \/ IF f.cat \in DOMAIN learned.verify THEN learned.verify[f.cat] = "always" ELSE f.conf >= Gate

StartVerify(wanted) ==
  /\ stage = "verify"
  /\ IF wanted /\ \E f \in Elements(findings) : ShouldVerify(f)
     THEN stage' = "proving" /\ queue' = findings
     ELSE stage' = "done" /\ UNCHANGED queue
  /\ UNCHANGED <<findings, learned, diffed, readable, backend, rule, surfaced, suppressed, alive, checks, raised, gone>>

Prove(f, outcome) ==
  CASE outcome = "reproduced" -> /\ surfaced' = Append(surfaced, [f EXCEPT !.conf = Larger(@, 99)])
                                 /\ UNCHANGED suppressed
    [] outcome = "refuted" -> suppressed' = suppressed \cup {<<f.of, outcome>>} /\ UNCHANGED surfaced
    [] OTHER -> IF f.conf >= HighConfidence THEN surfaced' = Append(surfaced, f) /\ UNCHANGED suppressed
                ELSE suppressed' = suppressed \cup {<<f.of, outcome>>} /\ UNCHANGED surfaced

(* What the workspace has learned keeps the sandbox for other kinds. *)
HeldByPolicy(f) ==
  f.conf >= Gate /\ f.cat \in DOMAIN learned.verify /\ learned.verify[f.cat] = "never"

(* A finding that needs no sandbox, or for which no test setup was found. *)
Settle ==
  /\ stage = "proving" /\ queue # <<>>
  /\ LET f == Head(queue)
     IN IF Exempt(f) THEN surfaced' = Append(surfaced, f) /\ UNCHANGED suppressed
        ELSE IF ~ShouldVerify(f) THEN Prove(f, IF HeldByPolicy(f) THEN "policy" ELSE "gate")
        ELSE Prove(f, "inconclusive")
  /\ queue' = Tail(queue)
  /\ UNCHANGED <<stage, findings, learned, diffed, readable, backend, rule, alive, checks, raised, gone>>

(* What a removal comes to: rm rejects on the disk, docker rm only fails. *)
Destroy ==
  CASE backend = "local" -> {"removed", "throws"}
    [] backend = "docker" -> {"removed", "fails"}
    [] OTHER -> {"removed", "fails", "throws"}

CheckPurged(removal) ==
  CASE backend = "local" -> {"purged"}
    [] backend = "docker" -> {IF removal = "fails" THEN "residual" ELSE "purged", "unverifiable"}
    [] OTHER -> {"unverifiable"}

(* The test that was written, by its exit: an exploit must pass, any other
   must not, for which it is enough that it cannot be run. *)
Outcome(f, exit) ==
  CASE exit = "untested" -> "inconclusive"
    [] (exit = "passes") = (f.cat = "security") -> "reproduced"
    [] OTHER -> "refuted"

Verify(exit, removal) ==
  /\ stage = "proving" /\ queue # <<>> /\ ShouldVerify(Head(queue))
  /\ removal \in Destroy \ {"throws"}
  /\ \E status \in CheckPurged(removal) : checks' = Append(checks, status)
  /\ alive' = IF removal = "removed" THEN alive ELSE alive + 1
  /\ Prove(Head(queue), Outcome(Head(queue), exit))
  /\ queue' = Tail(queue)
  /\ UNCHANGED <<stage, findings, learned, diffed, readable, backend, rule, raised, gone>>

(* The sandbox cannot be started, or its removal throws, which skips the
   check: the stage rejects and every finding goes on unverified. *)
VerifyThrows(started) ==
  /\ stage = "proving" /\ queue # <<>> /\ ShouldVerify(Head(queue))
  /\ started => "throws" \in Destroy
  /\ stage' = "done"
  /\ alive' = IF started THEN alive + 1 ELSE alive
  /\ UNCHANGED <<findings, learned, diffed, readable, backend, rule, queue, surfaced, suppressed, checks, raised, gone>>

EndVerify ==
  /\ stage = "proving" /\ queue = <<>>
  /\ findings' = surfaced /\ gone' = gone \cup suppressed
  /\ stage' = "done"
  /\ UNCHANGED <<learned, diffed, readable, backend, rule, queue, surfaced, suppressed, alive, checks, raised>>

(* verdictOf, with which the run ends. *)
VerdictOf(cs) ==
  LET found == Elements(cs)
  IN CASE found = {} -> "unverified"
       [] "residual" \in found -> "violated"
       [] found = {"purged"} -> "proven"
       [] "purged" \notin found -> "unverified"
       [] OTHER -> "partial"

Next ==
  \/ \E scanned \in SUBSET Elements(ScannerFindings), answers \in AgentReplies : DeepReview(scanned, answers)
  \/ \E reply \in SingleReplies : SinglePass(reply)
  \/ ReviewThrows
  \/ \E found \in {<<>>, ImpactFindings} : BlastRadius(found)
  \/ \E found \in {<<>>, CiFindings} : Regression(found)
  \/ \E on \in BOOLEAN, breaks \in RuleBreaks : PreMerge(on, breaks)
  \/ \E wanted \in BOOLEAN : StartVerify(wanted)
  \/ Settle
  \/ \E exit \in {"passes", "fails", "untested"}, removal \in {"removed", "fails"} : Verify(exit, removal)
  \/ \E started \in BOOLEAN : VerifyThrows(started)
  \/ EndVerify

Spec == Init /\ [][Next]_vars
-----------------------------------------------------------------------------
(* What was raised by a stage that went through is either among the        *)
(* findings of the review, no less severe than it was raised, or left with *)
(* a reason; what a scanner, the CI history or an owner's rule found never *)
(* leaves, whatever a model said of the same lines.                        *)
AllAccountedFor ==
  stage = "done" => \A r \in raised :
    \/ \E f \in Elements(findings) : r.of \subseteq f.of /\ f.sev >= r.sev /\ (Exempt(r) => Exempt(f))
    \/ ~Exempt(r) /\ \E g \in gone : r.of \subseteq g[1]

(* A serious claim of a model is never dropped untried, for want of         *)
(* confidence or because the workspace trusts its kind: it was tried and   *)
(* refuted, or the trial was inconclusive.  (A security finding merged     *)
(* into another kind is of that kind from then on.)  Others are dropped    *)
(* untried by the policy for their kind alone, or below the gate with no   *)
(* member of it that reaches the gate by itself.                           *)
SeriousIsTried ==
  \A g \in gone \cup suppressed : g[2] \in {"gate", "policy"} =>
    LET members == {r \in raised : r.of \subseteq g[1] /\ ~Exempt(r)}
        Never(r) == r.cat \in DOMAIN learned.verify /\ learned.verify[r.cat] = "never"
    IN /\ members # {}
       /\ \A r \in members : r.sev < High /\ (r.cat = "security" => r.of # g[1])
       /\ g[2] = "policy" => \E r \in members : Never(r)
       /\ g[2] = "gate" => \A r \in members : (r.resolves => r.conf < Gate)

(* A retention proof that says "proven" covers every sandbox of a stage that
   came to its end: one whose removal failed or could not be checked is not
   proven gone (checkPurged, verdictOf).  A stage that rejects in the middle
   leaves a sandbox that the proof does not know. *)
ProvenMeansGone ==
  stage = "done" /\ queue = <<>> /\ VerdictOf(checks) = "proven" => alive = 0
=============================================================================
