------------------------------ MODULE Reports -------------------------------
(***************************************************************************)
(* What recorded histories are made to say: the warnings raised about a    *)
(* pipeline from its CI runs, and the numbers a workspace and the founders *)
(* are shown of the reviews recorded.                                      *)
(*                                                                         *)
(*   src/packages/telemetry/src/store.ts            buildTrend, trim       *)
(*   src/services/orchestrator/src/telemetry/regression.ts                 *)
(*   src/services/control-plane/src/store.ts        stats, analytics,      *)
(*                                    listOrgsAdmin, platformStats         *)
(*   src/packages/analytics/src/analytics.ts                               *)
(*                                                                         *)
(* A run is [ok, ms]; runs is the history of one workflow in order of      *)
(* time.  A review is [at, repo, findings, cost] and a finding             *)
(* [severity, verified, decision].  Rates are whole hundredths, changes of *)
(* a rate or a duration tenths of a percent, as the code rounds them.      *)
(***************************************************************************)
EXTENDS Integers, Sequences, FiniteSets, SequencesExt, FiniteSetsExt

CONSTANTS
  RecentRuns,     \* size of the recent window            (RECENT_RUNS)
  MinPerSide,     \* runs needed on each side             (MIN_RUNS_PER_SIDE)
  MaxRows,        \* runs kept                            (MAX_ROWS_PER_REPO)
  MinChange,      \* slower by this many tenths of a percent  (MIN_CHANGE_PCT)
  MinMs,          \* and by this much                     (MIN_ABSOLUTE_MS)
  FlakyRate,      \* failed runs in a hundred             (FLAKY_PIPELINE_RATE)
  NoMean,         \* nothing to measure
  Day,            \* 86_400_000 ms
  NoTrial,        \* a workspace that has no trial        (no trialEndsAt)
  MinDays, MaxDays, DefaultDays,  \* 7, 90 and 30
  NoDays,         \* a request that names no number of days
  NoPrice         \* a review whose cost is not known     (no costUsd)

\* What the constants are.
ReportsAssumption ==
  /\ MinPerSide \in Nat \ {0} /\ RecentRuns \in Nat /\ RecentRuns >= MinPerSide
  /\ MaxRows \in Nat /\ MaxRows >= 2 * MinPerSide
  /\ MinChange \in Nat /\ MinMs \in Nat /\ FlakyRate \in Nat
  /\ Day \in Nat \ {0} /\ NoTrial \notin Int /\ NoPrice \notin Int
  /\ NoDays \notin Int /\ MinDays \in Nat \ {0} /\ MaxDays \in Nat /\ DefaultDays \in MinDays .. MaxDays

\* Math.round of a quotient with a positive divisor: halves go up.
Rounded(a, b) == (2 * a + b) \div (2 * b)

\* recordBuild of each run in turn: the oldest beyond MaxRows are dropped.
Kept(runs) == IF Len(runs) <= MaxRows THEN runs
              ELSE SubSeq(runs, Len(runs) - MaxRows + 1, Len(runs))

Succeeded(runs) == SelectSeq(runs, LAMBDA r : r.ok)

Mean(runs) ==
  IF runs = <<>> THEN NoMean
  ELSE Rounded(FoldLeft(LAMBDA sum, r : sum + r.ms, 0, runs), Len(runs))

\* Only runs that succeeded have a duration that means something.
Measured(runs) == Mean(Succeeded(runs))

HasTrend(runs) == Len(runs) >= 2 * MinPerSide

\* Where the baseline ends: the recent window gives way to the baseline.
Split(runs) == IF Len(runs) - RecentRuns > MinPerSide THEN Len(runs) - RecentRuns ELSE MinPerSide

Trend(runs) ==
  LET baseline == SubSeq(runs, 1, Split(runs))
      recent == SubSeq(runs, Split(runs) + 1, Len(runs))
      was == Measured(baseline)
      is == Measured(recent)
  IN [was |-> was, is |-> is,
      change |-> IF NoMean \in {was, is} \/ was = 0 THEN NoMean
                 ELSE Rounded((is - was) * 1000, was),
      failed |-> Rounded((Len(recent) - Len(Succeeded(recent))) * 100, Len(recent))]

\* The finding raised about one workflow, if any.
Finding(runs) ==
  IF ~HasTrend(Kept(runs)) THEN "none"
  ELSE LET t == Trend(Kept(runs))
           slower == t.change # NoMean /\ t.change >= MinChange /\ t.is - t.was >= MinMs
       IN CASE slower -> "slowdown"
            [] ~slower /\ t.failed >= FlakyRate -> "unreliable"
            [] OTHER -> "none"

-----------------------------------------------------------------------------
(* The reviews of a workspace *)

Total(reviews, Amount(_)) == FoldLeft(LAMBDA sum, r : sum + Amount(r), 0, reviews)
HowMany(reviews, Test(_)) == Cardinality({i \in DOMAIN reviews : Test(reviews[i])})
Found(reviews, Test(_)) ==
  Cardinality(UNION {{<<i, k>> : k \in {j \in DOMAIN reviews[i].findings : Test(reviews[i].findings[j])}} :
                     i \in DOMAIN reviews})

Each(f) == TRUE
Verified(f) == f.verified
Accepted(f) == f.decision = "accepted"
Rejected(f) == f.decision = "rejected"

\* A share in hundredths; of nothing it is 0.
Share(part, all) == IF all = 0 THEN 0 ELSE Rounded(100 * part, all)

\* Buckets of a day, oldest first, the last of which ends now.
Bars(reviews, now, n) ==
  [i \in 1..n |-> LET start == now - (n + 1 - i) * Day
                  IN HowMany(reviews, LAMBDA r : r.at >= start /\ r.at < start + Day)]

\* Hours a finding is worth on the dashboard, in hundredths.
Weight(severity) ==
  CASE severity = "critical" -> 75 [] severity = "high" -> 50 [] severity = "medium" -> 25 [] OTHER -> 10

stats(reviews, now) ==
  LET accepted == Found(reviews, Accepted)
      rejected == Found(reviews, Rejected)
  IN [reviews |-> Len(reviews), findings |-> Found(reviews, Each), verified |-> Found(reviews, Verified),
      accepted |-> accepted, rejected |-> rejected,
      actionRate |-> Share(accepted, accepted + rejected),
      falsePositiveRate |-> Share(rejected, accepted + rejected),
      bySeverity |-> [s \in UNION {{f.severity : f \in ToSet(r.findings)} : r \in ToSet(reviews)} |->
                       Found(reviews, LAMBDA f : f.severity = s)],
      reviewsLast7Days |-> Bars(reviews, now, 7),
      hoursSaved |-> Rounded(Total(reviews, LAMBDA r :
                       FoldLeft(LAMBDA sum, f : sum + Weight(f.severity), 0, r.findings)), 10)]

\* A severity the hours are known for, or the quietest one.
toSeverity(severity) == IF severity \in {"critical", "high", "medium", "low"} THEN severity ELSE "info"

\* Minutes a person would have spent (DEFAULT_RATES).
Minutes == [critical |-> 60, high |-> 40, medium |-> 20, low |-> 8, info |-> 3]
RejectedOverhead == 3

SavedBy(f) == (IF Accepted(f) \/ Verified(f) THEN Minutes[toSeverity(f.severity)] ELSE 0)
              - (IF Rejected(f) THEN RejectedOverhead ELSE 0)

computeTeamReport(reviews) ==
  LET minutes == Total(reviews, LAMBDA r : FoldLeft(LAMBDA sum, f : sum + SavedBy(f), 0, r.findings))
  IN [totalFindings |-> Found(reviews, Each), actedOn |-> Found(reviews, Accepted),
      actionRate |-> Share(Found(reviews, Accepted), Found(reviews, Each)),
      defectsCaught |-> Found(reviews, Verified),
      reviewerHoursSaved |-> Rounded(100 * (IF minutes > 0 THEN minutes ELSE 0), 60)]

\* A team is a repository, and only a finding brings one into the report.
teamsOf(reviews) ==
  [repo \in {r.repo : r \in {s \in ToSet(reviews) : s.findings # <<>>}} |->
     computeTeamReport(SelectSeq(reviews, LAMBDA r : r.repo = repo))]

computeOrgRollup(teams) ==
  LET Sum(Amount(_)) == MapThenSumSet(LAMBDA repo : Amount(teams[repo]), DOMAIN teams)
  IN [teams |-> teams,
      totalFindings |-> Sum(LAMBDA t : t.totalFindings),
      actionRate |-> Share(Sum(LAMBDA t : t.actedOn), Sum(LAMBDA t : t.totalFindings)),
      defectsCaught |-> Sum(LAMBDA t : t.defectsCaught),
      reviewerHoursSaved |-> Sum(LAMBDA t : t.reviewerHoursSaved)]

\* The UTC date of a moment.
Date(t) == t \div Day

\* One point for each of the last dates, today's the last.
Series(reviews, now, days) ==
  [i \in 1..days |->
    LET ofDay == SelectSeq(reviews, LAMBDA r : Date(r.at) = Date(now - (days - i) * Day))
    IN [reviews |-> Len(ofDay), findings |-> Found(ofDay, Each), verified |-> Found(ofDay, Verified),
        accepted |-> Found(ofDay, Accepted), rejected |-> Found(ofDay, Rejected)]]

\* What a rate changed from one half to the other.
Change(accepted, decided) ==
  IF 0 \in {decided[1], decided[2]} THEN 0
  ELSE Rounded((accepted[2] * decided[1] - accepted[1] * decided[2]) * 1000, decided[1] * decided[2])

\* The action rate of the later half of the days less that of the earlier one;
\* 0 where a half decided nothing.
halfOverHalfActionRate(series) ==
  LET mid == Len(series) \div 2
      Half(lo, hi, Amount(_)) == Total(SubSeq(series, lo, hi), Amount)
      Both(Amount(_)) == <<Half(1, mid, Amount), Half(mid + 1, Len(series), Amount)>>
  IN Change(Both(LAMBDA p : p.accepted), Both(LAMBDA p : p.accepted + p.rejected))

\* The days a page may ask for: whole, and neither few nor many.
Days(asked) == IF asked = NoDays THEN DefaultDays ELSE Min({MaxDays, Max({MinDays, asked})})

Window(reviews, now, days) == SelectSeq(reviews, LAMBDA r : r.at >= now - days * Day)

AnalyticsOf(reviews, rollup, series) ==
  [days |-> series, repos |-> rollup.teams, totalFindings |-> rollup.totalFindings,
   actionRate |-> rollup.actionRate, defectsCaught |-> rollup.defectsCaught,
   reviewerHoursSaved |-> rollup.reviewerHoursSaved,
   totalCost |-> Total(reviews, LAMBDA r : IF r.cost = NoPrice THEN 0 ELSE r.cost),
   priced |-> HowMany(reviews, LAMBDA r : r.cost # NoPrice),
   verifiedShare |-> Share(Found(reviews, Verified), Found(reviews, Each)),
   actionRateTrend |-> halfOverHalfActionRate(series)]

analytics(all, now, days) ==
  LET reviews == Window(all, now, days)
  IN AnalyticsOf(reviews, computeOrgRollup(teamsOf(reviews)), Series(reviews, now, days))

-----------------------------------------------------------------------------
(* The workspaces, as the founders see them.  A workspace is [tier,        *)
(* suspended, trialEnds, members, limit, today].                           *)

onTrial(o, now) == o.trialEnds # NoTrial /\ o.trialEnds > now
TrialExpired(o, now) == o.trialEnds # NoTrial /\ o.trialEnds <= now
TrialExpiring(o, now) == onTrial(o, now) /\ o.trialEnds - now <= 7 * Day

\* Math.ceil of the days left.
trialDaysLeft(o, now) == -((now - o.trialEnds) \div Day)

usagePct(o) == IF o.limit > 0 THEN Min({100, Rounded(100 * o.today, o.limit)}) ELSE 0

listOrgsAdmin(orgs, now) ==
  {[org |-> o, trialActive |-> onTrial(o, now),
    trialDaysLeft |-> IF o.trialEnds = NoTrial THEN NoTrial ELSE trialDaysLeft(o, now),
    usagePct |-> usagePct(o)] : o \in orgs}

seatsIn(orgs, Pick(_)) == MapThenSumSet(LAMBDA o : o.members, {o \in orgs : Pick(o)})

ReviewsWithin(reviews, now, n) == HowMany(reviews, LAMBDA r : now - r.at <= n * Day)

\* What founders see of the workspaces and of every review recorded.
platformStats(orgs, reviews, now) ==
  LET Orgs(Pick(_)) == Cardinality({o \in orgs : Pick(o)})
  IN [free |-> Orgs(LAMBDA o : o.tier = "free"), paid |-> Orgs(LAMBDA o : o.tier = "paid"),
      suspended |-> Orgs(LAMBDA o : o.suspended),
      trialActive |-> Orgs(LAMBDA o : onTrial(o, now)),
      trialExpiring7d |-> Orgs(LAMBDA o : TrialExpiring(o, now)),
      trialExpired |-> Orgs(LAMBDA o : TrialExpired(o, now)),
      last24h |-> ReviewsWithin(reviews, now, 1), last7d |-> ReviewsWithin(reviews, now, 7),
      perDay14 |-> Bars(reviews, now, 14),
      findings |-> Found(reviews, Each), verified |-> Found(reviews, Verified),
      accepted |-> Found(reviews, Accepted), rejected |-> Found(reviews, Rejected),
      paidSeats |-> seatsIn(orgs, LAMBDA o : o.tier = "paid" /\ ~o.suspended /\ ~onTrial(o, now)),
      trialSeats |-> seatsIn(orgs, LAMBDA o : onTrial(o, now) /\ ~o.suspended)]

-----------------------------------------------------------------------------
\* How long a failed or cancelled run took never changes what is said; a
\* slowdown is told only where some recent run that succeeded took longer than
\* some earlier one; and a pipeline whose recent runs all failed, which has no
\* duration to measure, is not passed over in silence.
WarningIsDeserved(runs, ms) ==
  LET kept == Kept(runs)
      recent == (Split(kept) + 1) .. Len(kept)
  IN /\ \A i \in DOMAIN runs : ~runs[i].ok => Finding([runs EXCEPT ![i].ms = ms]) = Finding(runs)
     /\ Finding(runs) = "slowdown" =>
          \E i \in recent, k \in 1 .. Split(kept) :
            kept[i].ok /\ kept[k].ok /\ kept[i].ms > kept[k].ms
     /\ HasTrend(kept) /\ (\A i \in recent : ~kept[i].ok) => Finding(runs) = "unreliable"

Itself(n) == n

\* Two ways of counting the same reviews give the same numbers: the bars hold
\* every review of their days once, of which the last twenty-four hours are the
\* last bar, and the points of the chart add up to the totals beside it, but for
\* the oldest date, of which the window holds a part and the chart nothing.
CountsAgree(all, now, days) ==
  \A said \in {analytics(all, now, days)}, platform \in {platformStats({}, all, now)} :
    LET older == SelectSeq(Window(all, now, days), LAMBDA r : Date(r.at) = Date(now) - days)
        justNow == HowMany(all, LAMBDA r : r.at = now)
    IN /\ Total(stats(all, now).reviewsLast7Days, Itself) + justNow = platform.last7d
       /\ platform.perDay14[14] + justNow = platform.last24h
       /\ Total(said.days, LAMBDA p : p.findings) + Found(older, Each) = said.totalFindings
       /\ Total(said.days, LAMBDA p : p.verified) + Found(older, Verified) = said.defectsCaught
       /\ Total(said.days, LAMBDA p : p.reviews) + Len(older) = Len(Window(all, now, days))

\* The one number for the workspace lies between those of its repositories, and
\* a change is told only of two halves that both decided something, in the
\* direction they went.
RatesAreHonest(all, now, days) ==
  \A said \in {analytics(all, now, days)} :
    LET rates == {said.repos[repo].actionRate : repo \in DOMAIN said.repos}
        decided == {i \in DOMAIN said.days : said.days[i].accepted + said.days[i].rejected > 0}
        early == {i \in decided : i <= days \div 2}
    IN /\ rates # {} => Min(rates) <= said.actionRate /\ said.actionRate <= Max(rates)
       /\ rates \subseteq 0..100
       /\ said.actionRateTrend \in -1000 .. 1000
       /\ said.actionRateTrend # 0 => early # {} /\ early # decided
       /\ (\A i \in early : said.days[i].rejected = 0) => said.actionRateTrend <= 0
       /\ (\A i \in decided \ early : said.days[i].rejected = 0) => said.actionRateTrend >= 0

\* The hours claimed are never negative, never grow because a finding was
\* rejected, never shrink because one was accepted, and an unknown severity
\* claims no more than any other.
HoursAreEarned(all, now, days) ==
  LET Hours(reviews) == computeOrgRollup(teamsOf(Window(reviews, now, days))).reviewerHoursSaved
      Decided(i, k, d) == [all EXCEPT ![i].findings[k].decision = d]
      Unknown(i, k) == [all EXCEPT ![i].findings[k].severity = "unheard of"]
  IN /\ Hours(all) >= 0
     /\ \A i \in DOMAIN all : \A k \in DOMAIN all[i].findings :
          /\ Hours(Unknown(i, k)) <= Hours(all)
          /\ Hours(Decided(i, k, "rejected")) <= Hours(Decided(i, k, "none"))
          /\ Hours(Decided(i, k, "none")) <= Hours(Decided(i, k, "accepted"))

\* The founders' two pages agree on who is on trial; a trial is either running
\* or over and has days left exactly while it runs, no seat is counted twice,
\* nor one of a suspended workspace at all, and a full day reads as full.
SeatsAreCountedOnce(orgs, now) ==
  \A said \in {platformStats(orgs, <<>>, now)}, views \in {listOrgsAdmin(orgs, now)} :
    LET onTrials == {v \in views : v.trialDaysLeft # NoTrial}
    IN /\ said.trialActive = Cardinality({v \in views : v.trialActive})
       /\ said.trialActive + said.trialExpired = Cardinality(onTrials)
       /\ said.trialExpiring7d = Cardinality({v \in onTrials : v.trialDaysLeft \in 1..7})
       /\ \A v \in onTrials : v.trialDaysLeft > 0 <=> v.trialActive
       /\ said.free + said.paid = Cardinality(orgs)
       /\ said.paidSeats + said.trialSeats <= seatsIn(orgs, LAMBDA o : ~o.suspended)
       /\ \A v \in views : v.usagePct \in 0..100
            /\ (v.org.today >= v.org.limit /\ v.org.limit > 0 => v.usagePct = 100)
=============================================================================
