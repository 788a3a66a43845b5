------------------------------ MODULE Calibrate ------------------------------
(***************************************************************************)
(* How accepts and rejects become a confidence bar per category            *)
(* (src/packages/learning/src/calibrate.ts).                               *)
(*                                                                         *)
(* A decision is [category, confidence, accepted, age]; confidences and    *)
(* shares are in percent.  Decisions come as a sequence, as two of them    *)
(* may be alike.  The sentences that explain a bar are left out.           *)
(*                                                                         *)
(* The code's confidences are binary floats: n stands for the double next  *)
(* to n/100, and confidences of more digits are not modelled.  Rounding    *)
(* changes no comparison of two of them, nor of a count with a share (the  *)
(* nearest double to the product is the whole number), nor what is just    *)
(* above one (round2 gives back n + 1); it decides one comparison, that of *)
(* a difference of MinMargin with the margin (see TooClose).               *)
(***************************************************************************)
EXTENDS Integers, Sequences, SequencesExt, FiniteSetsExt

CONSTANTS
  Base,           \* the standard bar               (baseThreshold, 50)
  MaxRise,        \* how far a bar may rise         (25)
  MaxDrop,        \* how far a trusted one falls    (15)
  SuppressShare,  \* rejects a bar must hold back   (60)
  CollateralShare,\* accepts it may cost            (20)
  TrustPrecision, \* accepts that make trust        (90)
  MinMargin,      \* distance to the lowest accept  (5)
  Window,         \* how long a decision counts
  MinOrg,         \* decisions before any bar moves
  MinCategory,    \* decisions before this one does
  NoConfidence,   \* an older record, without the field
  NoOpinion       \* neither "always" nor "never"

\* What the constants are.
CalibrateAssumption ==
  /\ {Base, MaxRise, MaxDrop, Window, MinOrg} \subseteq Nat
  /\ {SuppressShare, CollateralShare, TrustPrecision} \subseteq 0..100
  /\ MinCategory \in Nat \ {0} /\ MinMargin \in 0..Base  \* so that the floats' difference is exact

AtMost(n) == IF n > 100 THEN 100 ELSE n
Ceiling == AtMost(Base + MaxRise)
Floor == IF Base < MaxDrop THEN 0 ELSE Base - MaxDrop

Usable(d) == d.age <= Window /\ d.confidence # NoConfidence
InCategory(decisions, c) == SelectSeq(decisions, LAMBDA d : Usable(d) /\ d.category = c)
Active(decisions) == Len(SelectSeq(decisions, Usable)) >= MinOrg

Accepted(rows) == SelectSeq(rows, LAMBDA d : d.accepted)
Rejected(rows) == SelectSeq(rows, LAMBDA d : ~d.accepted)
Below(rows, cut) == Len(SelectSeq(rows, LAMBDA d : d.confidence < cut))

\* A bar here holds back enough of the rejected without costing the accepted.
Meets(rows, cut) ==
  /\ Below(Rejected(rows), cut) * 100 >= Len(Rejected(rows)) * SuppressShare
  /\ Below(Accepted(rows), cut) * 100 <= Len(Accepted(rows)) * CollateralShare

(***************************************************************************)
(* How far the double next to n/100 lies above it, in units of             *)
(* 1/(100 * 2^59).  With k digits behind the binary point it is a multiple *)
(* of 1/2^k, so n * 2^k mod 100 says how far to the next one; the last     *)
(* digits of 2^k are all it takes.                                         *)
(***************************************************************************)
Scales == {[from |-> 50, last |-> 92, unit |-> 64],   \* k = 53
           [from |-> 25, last |-> 84, unit |-> 32],   \* k = 54
           [from |-> 13, last |-> 68, unit |-> 16],
           [from |-> 7,  last |-> 36, unit |-> 8],
           [from |-> 4,  last |-> 72, unit |-> 4],
           [from |-> 2,  last |-> 44, unit |-> 2],
           [from |-> 0,  last |-> 88, unit |-> 1]}    \* k = 59

Excess(n) ==
  LET scale == CHOOSE x \in Scales : x.from <= n /\ \A y \in Scales : y.from <= n => y.from <= x.from
      rest  == (n * scale.last) % 100
  IN scale.unit * (IF rest < 50 THEN -rest ELSE 100 - rest)

\* The floats' difference is below the margin: 0.70 - 0.65 < 0.05.
TooClose(confidence, cut) ==
  \/ confidence - cut < MinMargin
  \/ confidence - cut = MinMargin /\ Excess(confidence) - Excess(cut) < Excess(MinMargin)

\* The finding the team kept that lies closest above the bar leaves daylight.
Clear(rows, cut) ==
  \A i \in DOMAIN rows :
    rows[i].accepted /\ rows[i].confidence >= cut => ~TooClose(rows[i].confidence, cut)

\* The bars worth trying: just above each confidence that was seen.
Candidates(rows) == {rows[i].confidence + 1 : i \in DOMAIN rows}
Raises(rows) == {cut \in Candidates(rows) : Base < cut /\ cut <= Ceiling}
TooHigh(rows) == \E cut \in Candidates(rows) : cut > Base /\ cut > Ceiling

Stay == [bar |-> Base, verify |-> NoOpinion]

\* The change of Raise that forgets the accepts right above the bar.
RaiseWithoutMargin(rows) ==
  LET fit == {cut \in Raises(rows) : Meets(rows, cut)}
      close == {cut \in Raises(rows) : Meets(rows, cut) /\ ~Clear(rows, cut)}
  IN CASE fit # {} -> [bar |-> Min(fit), verify |-> NoOpinion]
       [] fit = {} /\ (TooHigh(rows) \/ close # {}) -> Stay
       [] OTHER -> [bar |-> Base, verify |-> "always"]

\* The lowest bar that does the job; failing that, execution has to tell the
\* findings apart, unless a bar was too high or too close to be tried.
Raise(rows) ==
  LET fit == {cut \in Raises(rows) : Meets(rows, cut) /\ Clear(rows, cut)}
      close == {cut \in Raises(rows) : Meets(rows, cut) /\ ~Clear(rows, cut)}
  IN CASE fit # {} -> [bar |-> Min(fit), verify |-> NoOpinion]
       [] fit = {} /\ (TooHigh(rows) \/ close # {}) -> Stay
       [] OTHER -> [bar |-> Base, verify |-> "always"]

CalibrateCategory(rows) ==
  IF Len(rows) < MinCategory THEN Stay
  ELSE IF Len(Accepted(rows)) * 100 >= Len(rows) * TrustPrecision
    THEN [bar |-> Floor, verify |-> "never"]
  ELSE IF Meets(rows, Base) THEN Stay
  ELSE Raise(rows)

\* What a review is given for a category; Stay where nothing was learned.
Calibration(decisions, c) ==
  IF Active(decisions) THEN CalibrateCategory(InCategory(decisions, c)) ELSE Stay

-----------------------------------------------------------------------------
\* Every bar there could be, whatever was seen, and how far exactly it is
\* from the findings it lets through that the team kept.
Bars == Base + 1 .. 100
Distances(rows, cut) == {n \in 0..100 : \E i \in DOMAIN rows : rows[i].accepted /\ rows[i].confidence = cut + n}

\* A raised bar hides at most a fifth of what the team kept and at least
\* three fifths of what it rejected, is MinMargin or more from the findings it
\* lets through, and is the lowest of all bars that do; a lowered one, and the
\* end of proving, are for categories the team accepts nearly all of; and
\* where the base already does the job, or too little was decided, nothing
\* moves.  Rounding may cost a bar that is MinMargin from an accept to the
\* digit, and no other.
BarIsHonest(decisions, c) ==
  LET rows == InCategory(decisions, c)
      cal == Calibration(decisions, c)
      fits == {cut \in Bars : cut <= Ceiling /\ Meets(rows, cut) /\ \A n \in Distances(rows, cut) : n >= MinMargin}
      sure == {cut \in fits : MinMargin \notin Distances(rows, cut)}
      trusted == Len(rows) * TrustPrecision <= Len(Accepted(rows)) * 100
      decided == Active(decisions) /\ Len(rows) >= MinCategory
  IN /\ cal.bar > Base => cal.bar \in fits /\ \A cut \in sure : cal.bar <= cut
     /\ (cal.bar < Base \/ cal.verify = "never") => decided /\ trusted
     /\ ~decided \/ (Meets(rows, Base) /\ ~trusted) => cal = Stay
     /\ decided /\ ~trusted /\ ~Meets(rows, Base) /\ sure # {} => cal.bar > Base

\* What is too old, carries no confidence or is of another category teaches
\* nothing here, beyond waking the workspace.
OthersTeachNothing(decisions, c) ==
  \A i \in DOMAIN decisions :
    LET rest == RemoveAt(decisions, i)
    IN (decisions[i].category # c \/ ~Usable(decisions[i])) /\ Active(rest) = Active(decisions)
         => Calibration(decisions, c) = Calibration(rest, c)

=============================================================================
