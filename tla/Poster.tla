------------------------------- MODULE Poster -------------------------------
(***************************************************************************)
(* What one review puts on a pull request: its inline comments, the body   *)
(* of its comment, its check row and its description block                 *)
(* (services/orchestrator/src/poster/poster.ts), as functions of the       *)
(* review.  Text is a record of what it says; its length is counted in     *)
(* lines.  Rendering of names, marks, links and numbers is left out.       *)
(*                                                                         *)
(* A finding is a record [id, path, line, endLine, severity, verified,     *)
(* confidence, security, structural, proof, fix].  A review is a record of *)
(* the findings and of the options the workflow passes:                    *)
(*   findings      set of findings          commentable  set of <<path, line>>     *)
(*   carried       open entries of earlier reviews [id, path, severity]    *)
(*   resolved      closed entries [id, resolution]                         *)
(*   ledgerKnown   the record of earlier reviews was read                  *)
(*   sections      the parts of the page the workspace has switched on     *)
(*   includeSummary, requestChanges, blockUnavailable                      *)
(*   preMerge      [passed, failed, skipped]                               *)
(*   blocking      findings of this review at the blocking severity        *)
(*   delta         [reread, unchanged], or NoDelta                         *)
(*   rewritten     the history was rewritten                               *)
(*   limitations   files that could not be diffed                          *)
(*   signals       what was measured: a set of signal names                *)
(*   suppressed    findings the sandbox refuted                            *)
(*   impact, routes   rows of the call graph                               *)
(*   narrative     lines of the summary                                    *)
(*   effort        the model's read, or the estimate from the diff's size  *)
(***************************************************************************)
EXTENDS Naturals, Sequences, FiniteSets, FiniteSetsExt, SequencesExt

CONSTANTS
  MaxBody,          \* lines a host takes for one comment (MAX_BODY)
  Reserve,          \* lines kept for the note on what was left out
  MaxCarriedRows, MaxSecurityRows, MaxArchRows, MaxPriorityRows, MaxLimitationRows,
  NoDelta

High == 4

Worst(severities) == Max(severities \cup {1})

Severities(findings) == {f.severity : f \in findings}

Verified(findings) == {f \in findings : f.verified}

(* The end of a finding: its last line, or its only one. *)
EndLine(f) == IF f.endLine > f.line THEN f.endLine ELSE f.line

(* The change of AnchorFor that trusts the end of a range. *)
AnchorTrustingEnds(f, commentable) ==
  LET end == EndLine(f)
  IN IF <<f.path, f.line>> \in commentable THEN [from |-> f.line, to |-> end] ELSE [from |-> 0, to |-> 0]

(* Where a comment on the finding goes: over its whole range, on the one
   end that is part of the diff, or nowhere. *)
AnchorFor(f, commentable) ==
  LET end == EndLine(f)
      on(line) == <<f.path, line>> \in commentable
  IN CASE end # f.line /\ on(f.line) /\ on(end) -> [from |-> f.line, to |-> end]
       [] on(f.line) -> [from |-> f.line, to |-> f.line]
       [] end # f.line /\ on(end) -> [from |-> end, to |-> end]
       [] OTHER -> [from |-> 0, to |-> 0]

IsAnchored(anchor) == anchor.to # 0

RenderInlineBody(f, sections) ==
  [fp |-> f.id, proof |-> "proof" \in sections /\ f.verified, suggestion |-> f.fix]

(* Most severe first, then by line. *)
Ordered(findings) ==
  SortSeq(SetToSeq(findings),
    LAMBDA a, b : a.severity > b.severity \/ (a.severity = b.severity /\ a.line < b.line))

InlineFindings(r) ==
  {f \in r.findings : "inlineFindings" \in r.sections /\ IsAnchored(AnchorFor(f, r.commentable))}

OffDiff(r) == r.findings \ InlineFindings(r)

InlineComments(r) ==
  LET inline == InlineFindings(r)
      comment(f) == LET a == AnchorFor(f, r.commentable)
                    IN [path |-> f.path, from |-> a.from, to |-> a.to,
                        body |-> RenderInlineBody(f, r.sections)]
      seq == Ordered(inline)
  IN [i \in DOMAIN seq |-> comment(seq[i])]

(***************************************************************************)
(* The head: what was measured, the verdict, where it comes from.          *)
(***************************************************************************)
SecurityRow(findings) ==
  LET sec == {f \in findings : f.security}
  IN CASE sec = {} -> [signal |-> "Security Gate", mark |-> "proven", count |-> 0]
       [] Worst(Severities(sec)) >= High -> [signal |-> "Security Gate", mark |-> "attention", count |-> Cardinality(sec)]
       [] OTHER -> [signal |-> "Security Gate", mark |-> "neutral", count |-> Cardinality(sec)]

ProofRow(r) ==
  LET n == Cardinality(Verified(r.findings))
  IN CASE n > 0 -> {[signal |-> "Execution Proof", mark |-> "proven", count |-> n]}
       [] n = 0 /\ r.suppressed > 0 -> {[signal |-> "Execution Proof", mark |-> "neutral", count |-> r.suppressed]}
       [] OTHER -> {}

Checks(pm) == pm.passed + pm.failed + pm.skipped

PolicyRow(pm) ==
  CASE Checks(pm) = 0 -> {}
    [] pm.failed > 0 -> {[signal |-> "Policy Gate", mark |-> "attention", count |-> pm.failed]}
    [] Checks(pm) > 0 /\ pm.failed = 0 /\ pm.passed = 0 -> {[signal |-> "Policy Gate", mark |-> "attention", count |-> 0]}
    [] OTHER -> {[signal |-> "Policy Gate", mark |-> "proven", count |-> pm.passed]}

(* Per cent, rounded. *)
MeanConfidence(findings) ==
  LET n == Cardinality(findings)
  IN IF n = 0 THEN 0 ELSE (2 * MapThenSumSet(LAMBDA f : f.confidence, findings) + n) \div (2 * n)

EffortOf(r) == Min({5, Max({1, r.effort})})

(* The first thing an eye lands on: the same facts in colour, above the table
   (proven is green, attention the colour of a high severity).  A policy badge
   is green when nothing failed, were it that nothing could be checked. *)
SecurityBadge(findings) ==
  LET sec == {f \in findings : f.security}
  IN [signal |-> "Security Gate", count |-> Cardinality(sec),
      colour |-> CASE sec = {} -> "proven" [] sec # {} /\ Worst(Severities(sec)) >= High -> "attention"
                   [] OTHER -> "neutral"]

PolicyBadge(pm) ==
  IF Checks(pm) = 0 THEN {}
  ELSE {[signal |-> "Policy Gate", count |-> IF pm.failed > 0 THEN pm.failed ELSE pm.passed,
         colour |-> IF pm.failed > 0 THEN "attention" ELSE "proven"]}

ConfidenceBadge(findings) ==
  LET pct == MeanConfidence(findings)
  IN IF findings = {} THEN {}
     ELSE {[signal |-> "Confidence Score", count |-> pct,
            colour |-> CASE pct >= 85 -> "proven" [] pct < 85 /\ pct >= 65 -> "amber" [] OTHER -> "neutral"]}

BadgeStrip(r) ==
  {SecurityBadge(r.findings)}
  \cup {[signal |-> p.signal, count |-> p.count, colour |-> p.mark] : p \in ProofRow(r)}
  \cup PolicyBadge(r.preMerge)
  \cup ConfidenceBadge(r.findings)
  \cup {[signal |-> "Review Effort", count |-> EffortOf(r), colour |-> "neutral"]}

(* A row only for what the review measured; the security and the effort row
   are always there. *)
ScopeRows(r) ==
  LET files == {p[1] : p \in r.commentable} \cup {f.path : f \in r.findings}
      row(signal, mark, n) == IF n = 0 THEN {} ELSE {[signal |-> signal, mark |-> mark, count |-> n]}
  IN row("Deep Scan", "neutral", Cardinality(files))
     \cup {[signal |-> s, mark |-> IF s \in {"AST Verification", "Deterministic Pass"} THEN "proven" ELSE "neutral",
            count |-> 1] : s \in r.signals}
     \cup row("Still Open", "attention", Cardinality(r.carried))
     \cup row("Diff Coverage", "attention", Cardinality(r.limitations))
     \cup {SecurityRow(r.findings)}
     \cup ProofRow(r)
     \cup PolicyRow(r.preMerge)
     \cup (IF r.findings = {} THEN {}
           ELSE {[signal |-> "Confidence Score", mark |-> "neutral", count |-> MeanConfidence(r.findings)]})
     \cup {[signal |-> "Review Effort", mark |-> IF EffortOf(r) >= 4 THEN "attention" ELSE "neutral",
            count |-> EffortOf(r)]}

CarriedAtHigh(r) == {e \in r.carried : e.severity >= High}

BlockingReason(r) ==
  CASE r.preMerge.failed > 0 -> "checks failed"
    [] r.preMerge.failed = 0 /\ CarriedAtHigh(r) # {} /\ r.blocking = 0 -> "earlier findings open"
    [] r.preMerge.failed = 0 /\ CarriedAtHigh(r) # {} /\ r.blocking # 0 -> "new and earlier findings open"
    [] OTHER -> "finding posted"

Verdict(r) ==
  LET plain(kind, says) == [kind |-> kind, says |-> says, fresh |-> 0, carried |-> Cardinality(r.carried), reason |-> ""]
  IN CASE r.findings = {} /\ r.carried # {} ->
            plain(IF Worst(Severities(r.carried)) >= High THEN "warning" ELSE "note", "nothing new")
       [] r.findings = {} /\ r.carried = {} /\ ~r.ledgerKnown -> plain("note", "no statement")
       [] r.findings = {} /\ r.carried = {} /\ r.ledgerKnown -> plain("tip", "clean")
       [] OTHER ->
            [kind |-> IF r.requestChanges THEN "caution"
                      ELSE IF Worst(Severities(r.findings)) >= High THEN "warning" ELSE "note",
             says |-> IF r.requestChanges THEN "changes requested"
                      ELSE IF r.blockUnavailable THEN "block unavailable" ELSE "findings",
             fresh |-> Cardinality(r.findings), carried |-> Cardinality(r.carried),
             reason |-> IF r.requestChanges \/ r.blockUnavailable THEN BlockingReason(r) ELSE ""]

ProvenanceParts(r) ==
  (IF Verified(r.findings) # {} THEN {"reproduced"} ELSE {})
  \cup (IF r.suppressed > 0 THEN {"suppressed"} ELSE {})
  \cup (IF ~r.includeSummary THEN {"summary in the description"} ELSE {})

(* The parts of the narrative the workspace shows, each with its lines. *)
RenderNarrative(r) == {part \in {"summary", "changedFiles", "sequenceDiagram"} : part \in r.sections}

(* The first rows of a list, how many it does not show, and what it takes:
   a line for each row and one that says how many more there are. *)
FirstRows(seq, cap) == SubSeq(seq, 1, Min({cap, Len(seq)}))
More(seq, cap) == Len(seq) - Len(FirstRows(seq, cap))
Size(seq, cap) == Min({cap + 1, Len(seq)})

HeadSize(r) ==
  2 + (IF "reviewEffort" \in r.sections THEN 2 + Cardinality(ScopeRows(r)) ELSE 0)
    + (IF ProvenanceParts(r) = {} THEN 1 ELSE 2)
    + (IF r.includeSummary THEN r.narrative * Cardinality(RenderNarrative(r)) ELSE 0)

(***************************************************************************)
(* The sections below the head, in the order of the page.                  *)
(***************************************************************************)
Section(name, rows, more, size) == <<[name |-> name, rows |-> rows, more |-> more, size |-> size]>>

(* The rows up to the cap, and the number of the others. *)
Table(name, ids, cap) ==
  IF ids = <<>> THEN <<>>
  ELSE Section(name, Range(FirstRows(ids, cap)), More(ids, cap), 2 + Size(ids, cap))

Ids(seq) == [i \in DOMAIN seq |-> seq[i].id]

Cleared(r) == {e.id : e \in {x \in r.resolved : x.resolution = "fixed"}}

(* The open entries of earlier reviews, the worst first. *)
WorstFirst(entries) == SortSeq(SetToSeq(entries), LAMBDA a, b : a.severity > b.severity)

(* Shown only when it has something to say. *)
RenderDelta(r) ==
  IF r.delta = NoDelta THEN <<>>
  ELSE Table("delta",
         SelectSeq(<<"cleared", "raised", "still open", "unchanged", "rewritten">>,
           LAMBDA what :
             CASE what = "cleared" -> Cleared(r) # {}
               [] what = "raised" -> r.findings # {}
               [] what = "still open" -> r.carried # {}
               [] what = "unchanged" -> r.delta.unchanged > 0
               [] OTHER -> r.rewritten), 5)

RenderDiffLimitations(r) == Table("limitations", SetToSeq(r.limitations), MaxLimitationRows)
RenderPreMerge(r) == IF Checks(r.preMerge) = 0 THEN <<>> ELSE Section("pre-merge", {}, 0, 2 + Checks(r.preMerge))
RenderCarried(r) == Table("carried", Ids(WorstFirst(r.carried)), MaxCarriedRows)
RenderResolved(r) == Table("resolved", SetToSeq(Cleared(r)), MaxCarriedRows)
RenderImpact(r) == Table("impact", SetToSeq(r.impact), 4)

RenderSecurity(r) ==
  LET sec == Ids(Ordered({f \in r.findings : f.security}))
      reach == IF r.routes = {} THEN 0 ELSE 1
  IN IF sec = <<>> THEN <<>>
     ELSE Section("security", Range(FirstRows(sec, MaxSecurityRows)), More(sec, MaxSecurityRows),
                  2 + Size(sec, MaxSecurityRows) + reach)

RenderPriority(r) ==
  LET urgent == Ordered({f \in r.findings : f.severity >= High})
  IN IF urgent = <<>> THEN 0 ELSE 1 + Size(urgent, MaxPriorityRows)

(* Files with the worst finding first, then those with the most. *)
GroupByFile(findings) ==
  LET group(p) == [path |-> p, findings |-> {f \in findings : f.path = p}]
      worst(g) == Worst(Severities(g.findings))
  IN SortSeq(SetToSeq({group(p) : p \in {f.path : f \in findings}}),
       LAMBDA a, b : worst(a) > worst(b)
                     \/ (worst(a) = worst(b) /\ Cardinality(a.findings) > Cardinality(b.findings)))

(* One row per finding, and the detail of those no comment carries. *)
RenderFileSection(g, offDiff) ==
  LET notes == g.findings \cap offDiff
  IN [name |-> "file", rows |-> {f.id : f \in g.findings}, more |-> 0, details |-> {f.id : f \in notes},
      size |-> 2 + Cardinality(g.findings) + (IF notes = {} THEN 0 ELSE 1 + 2 * Cardinality(notes))]

RenderFiles(r) ==
  LET groups == GroupByFile(r.findings)
  IN IF groups = <<>> THEN <<>>
     ELSE Section("findings", {}, 0, 1 + RenderPriority(r))
          \o [i \in DOMAIN groups |-> RenderFileSection(groups[i], OffDiff(r))]

RenderArchitecture(r) == Table("architecture", Ids(Ordered({f \in r.findings : f.structural})), MaxArchRows)

Sections(r) ==
  RenderDelta(r) \o RenderDiffLimitations(r) \o RenderPreMerge(r) \o RenderCarried(r) \o RenderResolved(r)
  \o RenderImpact(r) \o RenderSecurity(r) \o RenderFiles(r) \o RenderArchitecture(r)

LegendSize(r) == IF r.findings = {} THEN 0 ELSE 1

(***************************************************************************)
(* The body: everything if it fits, and otherwise whole sections as long   *)
(* as they fit, with the number of those left out.                         *)
(***************************************************************************)
SumSizes(sections) == FoldLeft(LAMBDA n, s : n + s.size, 0, sections)

Trimmed(head, sections, kept, tail) ==
  [sections |-> kept, omitted |-> Len(sections) - Len(kept), size |-> head + SumSizes(kept) + tail + 1]

Assemble(head, sections, tail) ==
  LET whole == head + SumSizes(sections) + tail
      fits(kept, s) == head + SumSizes(kept) + s.size + tail + Reserve <= MaxBody
  IN IF whole <= MaxBody
     THEN [sections |-> sections, omitted |-> 0, size |-> whole]
     ELSE Trimmed(head, sections, FoldLeft(LAMBDA k, s : IF fits(k, s) THEN Append(k, s) ELSE k, <<>>, sections), tail)

RenderReviewComment(r) ==
  [verdict |-> Verdict(r)] @@ Assemble(HeadSize(r), Sections(r), LegendSize(r) + 1)

BuildReviewSubmission(r) ==
  [event |-> IF r.requestChanges THEN "REQUEST_CHANGES" ELSE "COMMENT",
   comments |-> InlineComments(r),
   body |-> RenderReviewComment(r)]

(* The check row the host lists beside the pull request: a title, the table of
   the head, and what it claims of the reading. *)
BuildCheckOutput(r) ==
  [title |-> CASE r.requestChanges -> "changes requested"
               [] ~r.requestChanges /\ r.findings = {} /\ r.carried # {} -> "nothing new"
               [] ~r.requestChanges /\ r.findings = {} /\ r.carried = {} -> "no issues"
               [] OTHER -> "findings",
   fresh |-> Cardinality(r.findings), carried |-> Cardinality(r.carried), rows |-> ScopeRows(r),
   claim |-> IF r.findings = {} /\ r.carried = {} THEN "read every line" ELSE "listed in the review"]
-----------------------------------------------------------------------------
(* What the page tells of a list: some of it by name and how many more there
   are; only a page that says it left sections out may say nothing.  What it
   names first is in PriorTo. *)
Tells(page, name, all, PriorTo(_, _)) ==
  LET told == {i \in DOMAIN page.sections : page.sections[i].name = name}
  IN IF told = {} THEN all = {} \/ page.omitted > 0
     ELSE \A i \in told :
            LET s == page.sections[i]
            IN /\ s.rows # {} /\ s.rows \subseteq all
               /\ Cardinality(s.rows) + s.more = Cardinality(all)
               /\ \A hidden \in all \ s.rows, shown \in s.rows : ~PriorTo(hidden, shown)

(* No finding is lost between the comments and the body: each has its row in
   a section of its file, and its detail in a comment on the line or in that
   section; only a section the body counts as left out may hide it
   (renderFileSection, assemble). *)
EveryFindingIsTold(r) ==
  \A built \in {BuildReviewSubmission(r)} :
    LET body == built.body
        commented == {c.body.fp : c \in Range(built.comments)}
        files == {i \in DOMAIN body.sections : body.sections[i].name = "file"}
        hidden == Cardinality({f.path : f \in r.findings}) - Cardinality(files)
    IN /\ hidden <= body.omitted
       /\ \A f \in r.findings :
            \/ \E i \in files :
                 f.id \in body.sections[i].rows /\ (f.id \in body.sections[i].details \/ f.id \in commented)
            \/ hidden > 0

(* A comment never exceeds what the host accepts, whatever the sections,
   as long as the head itself fits (assemble). *)
BodyFits(r) ==
  HeadSize(r) + LegendSize(r) + 1 + Reserve <= MaxBody => RenderReviewComment(r).size <= MaxBody

(* GitHub refuses a whole review for one comment off the diff: every comment
   starts and ends on a line of the diff, and no finding with such a line is
   kept out (anchorFor). *)
CommentsAreOnTheDiff(r) ==
  /\ \A c \in Range(InlineComments(r)) :
       /\ <<c.path, c.from>> \in r.commentable
       /\ <<c.path, c.to>> \in r.commentable
       /\ c.from <= c.to
  /\ "inlineFindings" \in r.sections =>
       \A f \in OffDiff(r) : {<<f.path, f.line>>, <<f.path, EndLine(f)>>} \cap r.commentable = {}

(* The colours say no more than the table below them: each badge repeats the
   number of its row, and one that is green repeats a row that is.  The mean
   confidence has a scale of its own, and a gate none of whose rules could be
   checked is green above and amber below (badgeStrip, scopeRows). *)
BadgesAreTrue(r) ==
  \A b \in BadgeStrip(r) :
    /\ \E row \in ScopeRows(r) : row.signal = b.signal /\ row.count = b.count
    /\ b.colour = "proven" /\ b.signal # "Confidence Score" =>
         \/ \E row \in ScopeRows(r) : row.signal = b.signal /\ row.mark = "proven"
         \/ b.signal = "Policy Gate" /\ r.preMerge.passed + r.preMerge.failed = 0

(* What is open is never passed over in silence: the verdict counts the new
   findings and the earlier ones; the list below names the earlier ones, the
   worst first, and counts those it does not name; and neither the verdict nor
   the check row calls a page with open findings clean, nor the verdict one
   whose record of earlier reviews was not read (verdict, renderCarried,
   buildCheckOutput). *)
NothingOpenIsSilent(r) ==
  \A page \in {RenderReviewComment(r)}, check \in {BuildCheckOutput(r)} :
    LET severity(id) == (CHOOSE e \in r.carried : e.id = id).severity
        worse(a, b) == severity(a) > severity(b)
    IN /\ page.verdict.fresh = Cardinality(r.findings) /\ page.verdict.carried = Cardinality(r.carried)
       /\ Tells(page, "carried", {e.id : e \in r.carried}, worse)
       /\ page.verdict.says = "clean" => r.ledgerKnown
       /\ r.findings # {} \/ r.carried # {} =>
            page.verdict.says # "clean" /\ check.title # "no issues" /\ check.claim = "listed in the review"

(* What was not read is told: the page lists the files, and counts those it
   does not name; the table of the check row counts them all.  The sentence
   under that table is not vouched for: with nothing to raise it claims every
   changed line whatever was left unread, and the title "no issues" whatever
   is known of earlier reviews, since both ask for findings only
   (renderDiffLimitations, scopeRows, buildCheckOutput). *)
UnreadIsTold(r) ==
  \A page \in {RenderReviewComment(r)}, check \in {BuildCheckOutput(r)} :
    LET counted == [signal |-> "Diff Coverage", mark |-> "attention", count |-> Cardinality(r.limitations)]
        none(a, b) == FALSE
    IN /\ Tells(page, "limitations", r.limitations, none)
       /\ r.limitations # {} => counted \in check.rows
       /\ check.claim = "read every line" => r.findings = {} /\ page.verdict.says \in {"clean", "no statement"}
=============================================================================
