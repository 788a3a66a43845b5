------------------------------ MODULE MCReview ------------------------------
(***************************************************************************)
(* The parts of one review, each explored by itself in one run: the part   *)
(* is chosen at the start and the others stay.  Four have a state, those   *)
(* of what starts a review and of what it reads being the module's own     *)
(* (Triggers, ReviewScope); the others are functions, whose inputs are     *)
(* chosen in one step or grown element by element.                         *)
(***************************************************************************)
EXTENDS Triggers, ReviewScope, SequencesExt

CONSTANTS None, NoReply, Gone, Parts

VARIABLES
  part, input,
  stage, findings, learned, diffed, readable, backend, rule, queue, surfaced, suppressed, alive, checks, raised, gone,
  head, files, symbols, verified, commits

-----------------------------------------------------------------------------
(* Findings: two files, or three of which one is not read; two scanner
   findings, the answers of two agents. *)
F(id, path, line, sev, cat, topic, source, conf, immutable, resolves) ==
  [of |-> {id}, path |-> path, line |-> line, sev |-> sev, cat |-> cat, topic |-> topic,
   source |-> source, conf |-> conf, immutable |-> immutable, resolves |-> resolves]
Secret == F("secret", "a", 1, 3, "security", "t1", "secret", 90, FALSE, TRUE)
Sast   == F("sast", "a", 5, 2, "bug", "t2", "sast", 60, FALSE, TRUE)
L0 == F("l0", "a", 0, 5, "security", "t3", "llm", 30, FALSE, TRUE)
L1 == F("l1", "a", 2, 5, "security", "t3", "llm", 30, FALSE, TRUE)
L2 == F("l2", "a", 4, 2, "bug", "t4", "llm", 70, FALSE, FALSE)
L3 == F("l3", "b", 3, 2, "style", "t4", "llm", 60, FALSE, TRUE)
L4 == F("l4", "z", 3, 4, "bug", "t4", "llm", 95, FALSE, TRUE)
L5 == F("l5", "b", 4, 4, "bug", "t4", "llm", 45, FALSE, TRUE)
L6 == F("l6", "b", 4, 2, "security", "t4", "llm", 55, FALSE, TRUE)
Impact == F("imp", "a", 1, 4, "api", "t6", "llm", 85, FALSE, TRUE)
Ci     == F("ci", "w", 1, 2, "perf", "t7", "telemetry", 90, FALSE, TRUE)
Break  == F("rule", "b", 3, 4, "policy", "t8", "policy", 100, TRUE, TRUE)
Nothing == [c \in {} |-> 0]

N == INSTANCE Findings WITH
  Diffs <- {<<"a", "b">>, <<"c", "b", "a">>}, ScannerFindings <- <<Secret, Sast>>,
  AgentReplies <- {<<NoReply, <<L1, L0>>>>, <<<<L1, L3>>, <<L5>>>>, <<<<L2, L4>>, <<L3>>>>, <<<<L6>>, <<L3>>>>},
  SingleReplies <- {NoReply, <<L2, L4>>},
  ImpactFindings <- <<Impact>>, CiFindings <- <<Ci>>, RuleBreaks <- {<<>>, <<Break>>},
  Learned <- {[threshold |-> Nothing, verify |-> Nothing],
              [threshold |-> [c \in {"bug"} |-> 80], verify |-> [c \in {"style"} |-> "never"]],
              [threshold |-> [c \in {"security"} |-> 20], verify |-> [c \in {"security"} |-> "never"]]},
  MaxSourceFiles <- 2

(* The index: three files and what each may define, call and import. *)
Def(name, line) == [name |-> name, line |-> line]
Call(callee, line) == [callee |-> callee, line |-> line]
X == INSTANCE CodeIndex WITH
  Paths <- {"a", "b", "c"}, Depth <- 2, FanoutCap <- 1, MaxCommits <- 1,
  Contents <- {[defs |-> <<Def("f", 1)>>, calls |-> {}, modules |-> {}, names |-> {}],
               [defs |-> <<Def("g", 1), Def("h", 3)>>, calls |-> {Call("f", 2), Call("g", 4)}, modules |-> {"a"}, names |-> {}],
               [defs |-> <<Def("f", 1), Def("f", 3)>>, calls |-> {Call("g", 4)}, modules |-> {}, names |-> {"g"}]}

(* Three comments. *)
Comments == {<<<<"thanks">>, <<"@cavix", "--review">>>>, <<<<"@cavixcode[bot]">>>>, <<<<"me@cavix.dev", "stop">>>>}

-----------------------------------------------------------------------------
(* The functions. *)
D == INSTANCE Differ WITH NoVersion <- None, NoFile <- "none"
P == INSTANCE Poster WITH
  MaxBody <- 24, Reserve <- 2, MaxCarriedRows <- 1, MaxSecurityRows <- 1, MaxArchRows <- 1,
  MaxPriorityRows <- 1, MaxLimitationRows <- 1, NoDelta <- None
A == INSTANCE AzureHost WITH PageSize <- 4, MaxDiffFiles <- 2
G == INSTANCE OrgImpact WITH Wildcard <- "*", NoPath <- <<"none">>, Generic <- {"get"}, MaxSites <- 1
C == INSTANCE Reports WITH
  RecentRuns <- 3, MinPerSide <- 2, MaxRows <- 5, MinChange <- 200, MinMs <- 3, FlakyRate <- 30, NoMean <- None,
  Day <- 4, NoTrial <- None, NoPrice <- None, MinDays <- 2, MaxDays <- 3, DefaultDays <- 2, NoDays <- None
L == INSTANCE Calibrate WITH
  Base <- 50, MaxRise <- 25, MaxDrop <- 15, SuppressShare <- 60, CollateralShare <- 20, TrustPrecision <- 90,
  MinMargin <- 5, Window <- 2, MinOrg <- 5, MinCategory <- 5, NoConfidence <- None, NoOpinion <- None
R == INSTANCE Context WITH
  ConventionFiles <- {"CONTRIBUTING.md"}, Stem <- "CONTRIBUTING.md" :> "contributing" @@ "db.md" :> "db",
  NoName <- "none", Budget <- 6, Oversize <- 4, Brief <- 2

(* The constants of the parts are as their modules want them. *)
ASSUME PartsAssumption ==
  /\ ReviewScopeAssumption /\ X!CodeIndexAssumption /\ G!OrgImpactAssumption /\ C!ReportsAssumption /\ L!CalibrateAssumption
  /\ R!ContextAssumption /\ TriggersAssumption

UpTo(set, n) == UNION {[1..k -> set] : k \in 0..n}
Given(v) == input = None /\ input' = v

(* Two versions of a file and how far the diff looks. *)
PickDiff ==
  \E before, after \in UpTo({"x", "y"}, 3) \cup UpTo({"x", "++ z"}, 2), old, new \in BOOLEAN, context \in {0, 1}, limit \in {2, 9} :
    /\ ~old => before = <<>>
    /\ ~new => after = <<>>
    /\ Given([before |-> IF old THEN before ELSE None, after |-> IF new THEN after ELSE None,
              context |-> context, limit |-> limit])

(* A review with up to three findings, of which the comments of some lines,
   earlier findings, other parts of the page, and the changes of the host. *)
Finding(id, path, line, endLine, severity, security) ==
  [id |-> id, path |-> path, line |-> line, endLine |-> endLine, severity |-> severity,
   verified |-> security, confidence |-> IF security THEN 95 ELSE 62, security |-> security, structural |-> ~security,
   proof |-> security, fix |-> security]
Change(path, kind, order, hunks) ==
  [path |-> path, kind |-> kind, folder |-> FALSE, order |-> order, readable |-> hunks, hunks |-> hunks]
Earlier == {[id |-> "e1", path |-> "a", severity |-> 4], [id |-> "e2", path |-> "b", severity |-> 2]}
Checks(passed, failed, skipped) == [passed |-> passed, failed |-> failed, skipped |-> skipped]

Edited == {Change("a", "edit", 1, TRUE)}

PickPage ==
  \E found \in SUBSET {Finding("f1", "a", 1, 2, 4, TRUE), Finding("f2", "a", 5, 5, 2, FALSE), Finding("f3", "b", 3, 4, 3, FALSE)},
     lines \in SUBSET {<<"a", 1>>, <<"a", 2>>, <<"b", 4>>}, carried \in SUBSET Earlier,
     hidden \in {{}, {"inlineFindings"}, {"reviewEffort", "summary"}}, known, block \in BOOLEAN,
     changes \in {Edited, Edited \cup {Change("c", "edit", 2, FALSE), Change("d", "add", 3, TRUE)}} :
    LET fetched == A!FetchPullDiff(changes, block)
    IN /\ ~known => carried = {} /\ hidden = {}
       /\ Given([changes |-> changes,
                 review |-> [findings |-> found, commentable |-> lines, carried |-> carried, resolved |-> {},
                   ledgerKnown |-> known,
                   sections |-> {"inlineFindings", "reviewEffort", "summary", "proof"} \ hidden,
                   includeSummary |-> TRUE, requestChanges |-> block /\ found # {}, blockUnavailable |-> FALSE,
                   preMerge |-> IF block THEN Checks(0, 1, 1) ELSE Checks(0, 0, Cardinality(carried)), blocking |-> 0,
                   delta |-> IF known THEN [reread |-> 1, unchanged |-> 1] ELSE None, rewritten |-> block,
                   limitations |-> fetched.limitations, signals |-> {"Deterministic Pass"},
                   suppressed |-> Cardinality(carried), impact |-> {}, routes |-> {}, narrative |-> 3,
                   effort |-> IF block THEN 9 ELSE 3]])

(* A contract, the part of it that a change shows and touches, and the calls
   another repository makes. *)
HttpLine(path, method) == [path |-> path, method |-> method, rpc |-> "none", closes |-> FALSE]
RpcLine(rpc, closes) == [path |-> <<"none">>, method |-> "none", rpc |-> rpc, closes |-> closes]
HttpCall(method, path) == [kind |-> "http", key |-> [method |-> method, path |-> path], scope |-> {}]
RpcCall(method, scope) == [kind |-> "grpc", key |-> [method |-> method], scope |-> scope]
Document == <<HttpLine(<<"o">>, "none"), HttpLine(<<"none">>, "get"), HttpLine(<<"none">>, "del"),
              HttpLine(<<"u", "*">>, "none"), HttpLine(<<"none">>, "get")>>
Service == <<RpcLine("get", FALSE), RpcLine("cancel", FALSE), RpcLine("none", TRUE), RpcLine("late", FALSE)>>
HttpCalls == {HttpCall("get", <<"v2", "o">>), HttpCall("del", <<"o">>), HttpCall("get", <<"u", "7">>),
              HttpCall("get", <<"o", "*">>), HttpCall("get", <<"*", "*">>)}
RpcCalls == {RpcCall("get", {"bill"}), RpcCall("get", {"order"}), RpcCall("get", {}),
             RpcCall("cancel", {}), RpcCall("late", {"order"})}

PickReach ==
  \E http \in BOOLEAN :
    LET lines == IF http THEN Document ELSE Service
    IN \E lo \in DOMAIN lines, calls \in UpTo(IF http THEN HttpCalls ELSE RpcCalls, 2) :
         \E one \in lo .. Len(lines) : \E two \in one .. Len(lines) : \E hi \in {two, Len(lines)} :
           Given([kind |-> IF http THEN "http" ELSE "grpc", service |-> {"order"}, lines |-> lines,
                  lo |-> lo, hi |-> hi, changed |-> {one, two}, calls |-> calls])

(* A repository's rules, and a change with what the graph says of it. *)
RuleFile(path, name, applies, size) == [path |-> path, name |-> name, applies |-> applies, size |-> size]
Text(path, size) == [path |-> path, size |-> size]
Globs == {{}, {<<"migrations", "**">>}, {<<"**", "*">>, <<"src", "**", "b.ts">>}}
Conventions(size) == <<RuleFile(<<"CONTRIBUTING.md">>, "none", {}, size), RuleFile(<<"src", "CONTRIBUTING.md">>, "none", {}, 2)>>

PickContext ==
  \E name \in {"none", "contributing"}, applies \in Globs, size \in {0, 2, 4}, conventions \in 0..2, bigger \in {1, 3},
     diff \in {1, 9}, paths \in SUBSET {<<"migrations", "1">>, <<"src", "a.ts">>} \ {{}}, known \in BOOLEAN,
     callers \in UpTo({Text(<<"src", "a.ts">>, 1), Text(<<"src", "x", "b.ts">>, 5)}, 2), discussed, again \in BOOLEAN :
    /\ known => <<"src", "a.ts">> \in paths
    /\ callers # <<>> => known
    /\ again => size = 2 /\ ~discussed
    /\ Given([files |-> <<RuleFile(<<".cavix", "rules", "db.md">>, name, applies, size)>>
                          \o SubSeq(Conventions(bigger), 1, conventions)
                          \o (IF again THEN <<RuleFile(<<".cavix", "rules", "more.md">>, "contributing", {}, 1)>> ELSE <<>>),
              change |-> [diff |-> diff, paths |-> paths, callers |-> callers,
                changed |-> IF known THEN <<Text(<<"src", "a.ts">>, 2)>> ELSE <<>>,
                discussions |-> IF discussed THEN <<Text(<<"src", "a.ts">>, 2)>> ELSE <<>>, related |-> <<>>]])

(* A history of decisions on findings, in the order of their confidence, and
   one of CI runs, each grown by one at a time. *)
Decision(category, confidence, accepted, age) ==
  [category |-> category, confidence |-> confidence, accepted |-> accepted, age |-> age]
Key(d) == 2 * d.confidence + (IF d.accepted THEN 1 ELSE 0)
Others == {<<>>, <<Decision("b", 60, TRUE, 0)>>, <<Decision("a", 60, TRUE, 9)>>, <<Decision("a", None, TRUE, 0)>>}

GrowDecisions ==
  \E confidence \in {45, 60, 64, 66, 70, 80}, accepted \in BOOLEAN :
    LET d == Decision("a", confidence, accepted, 0)
    IN /\ Len(input) < 6 /\ (IF input = <<>> THEN TRUE ELSE Key(input[Len(input)]) <= Key(d))
       /\ input' = Append(input, d)

GrowRuns ==
  \E ok \in BOOLEAN, ms \in {10, 12, 16} :
    Len(input) < 6 /\ (ok \/ ms = 10) /\ input' = Append(input, [ok |-> ok, ms |-> ms])

(* The reviews of a workspace, in order of time: today, yesterday, at the edges
   of the window of two days and before it; and what founders see of two
   workspaces. *)
Now == 41
Judged(severity, proven, decision) == [severity |-> severity, verified |-> proven, decision |-> decision]
Answers == {<<>>, <<Judged("critical", FALSE, "accepted")>>, <<Judged("low", FALSE, "rejected"), Judged("high", FALSE, "rejected"), Judged("odd", TRUE, "none")>>,
            <<Judged("high", TRUE, "rejected"), Judged("info", FALSE, "accepted")>>}

GrowReviews ==
  \E at \in {30, 33, 39, 41}, repo \in {"p", "q"}, found \in Answers :
    /\ Len(input) < 3 /\ (IF input = <<>> THEN TRUE ELSE input[Len(input)].at <= at)
    /\ input' = Append(input, [at |-> at, repo |-> repo, findings |-> found, cost |-> IF repo = "p" THEN 3 ELSE None])

PickOrgs ==
  \E ends \in {None} \cup (Now - 5 .. Now + 5) \cup (Now + 27 .. Now + 29), tier \in {"free", "paid"}, suspended \in BOOLEAN,
     today \in 0..3 :
    Given({[tier |-> tier, suspended |-> suspended, trialEnds |-> ends, members |-> 3, limit |-> 2, today |-> today],
           [tier |-> "paid", suspended |-> FALSE, trialEnds |-> Now + 2, members |-> 2, limit |-> 0, today |-> 0],
           [tier |-> "paid", suspended |-> FALSE, trialEnds |-> None, members |-> 1, limit |-> 3, today |-> today]})

-----------------------------------------------------------------------------
findingVars == <<stage, findings, learned, diffed, readable, backend, rule, queue, surfaced, suppressed, alive, checks, raised, gone>>
indexVars == <<head, files, symbols, verified, commits>>
machineVars == <<findingVars, vars, indexVars, triggerVars>>
allVars == <<part, input, machineVars>>

(* The parts not chosen start in one state. *)
MCInit ==
  /\ part \in Parts
  /\ input = IF part \in {"decisions", "runs", "reviews"} THEN <<>> ELSE None
  /\ N!Init /\ Init /\ TriggersInit
  /\ part = "findings" \/ (learned.threshold = Nothing /\ learned.verify = Nothing /\ diffed = <<"a", "b">> /\ readable = {} /\ backend = "local")
  /\ diffed = <<"a", "b">> \/ (backend = "docker" /\ learned.verify = Nothing)
  /\ part = "scope" \/ (excluded = {} /\ chain[2].snap = [f \in Files |-> 1])
  /\ X!Init
  /\ part = "index" \/ head = [f \in {"a", "b", "c"} |-> Gone]
  /\ part = "triggers" \/ (platform = "github" /\ pull.head = 1)

FindingStep == part = "findings" /\ N!Next /\ UNCHANGED <<part, input, vars, indexVars, triggerVars>>
ScopeStep == part = "scope" /\ Next /\ UNCHANGED <<part, input, findingVars, indexVars, triggerVars>>
IndexStep == part = "index" /\ X!Next /\ UNCHANGED <<part, input, findingVars, vars, triggerVars>>
TriggerStep == part = "triggers" /\ TriggersNext /\ UNCHANGED <<part, input, findingVars, vars, indexVars>>
DiffStep == part = "diff" /\ PickDiff /\ UNCHANGED <<part, machineVars>>
PageStep == part = "page" /\ PickPage /\ UNCHANGED <<part, machineVars>>
ReachStep == part = "reach" /\ PickReach /\ UNCHANGED <<part, machineVars>>
ContextStep == part = "context" /\ PickContext /\ UNCHANGED <<part, machineVars>>
DecisionsStep == part = "decisions" /\ GrowDecisions /\ UNCHANGED <<part, machineVars>>
RunsStep == part = "runs" /\ GrowRuns /\ UNCHANGED <<part, machineVars>>
ReviewsStep == part = "reviews" /\ GrowReviews /\ UNCHANGED <<part, machineVars>>
OrgsStep == part = "orgs" /\ PickOrgs /\ UNCHANGED <<part, machineVars>>

MCNext ==
  \/ FindingStep \/ ScopeStep \/ IndexStep \/ TriggerStep
  \/ DiffStep \/ PageStep \/ ReachStep \/ ContextStep \/ DecisionsStep \/ RunsStep
  \/ ReviewsStep \/ OrgsStep

MCSpec == MCInit /\ [][MCNext]_allVars

-----------------------------------------------------------------------------
Has(p) == part = p /\ input # None

(* No finding leaves without a reason, no serious one for want of
   confidence, and what the trials leave behind is not called gone. *)
FindingsAccountedFor == N!AllAccountedFor /\ N!SeriousIsTried /\ N!ProvenMeansGone

(* Who is affected by a change, within a repository and beyond. *)
ReachIsComplete ==
  /\ X!StaleOnlyWeakens /\ X!ReachIsComplete
  /\ Has("reach") => G!EveryCallerIsNamed(input)

(* The lines a comment may go to are those the change adds. *)
LinesAreTrue ==
  Has("diff") =>
    /\ input.before # None /\ input.after # None => D!DiffIsExact(input.before, input.after, input.limit)
    /\ D!LinesArePlaced([path |-> "p", oldPath |-> "p", binary |-> FALSE, before |-> input.before, after |-> input.after],
                        input.context)

(* The page tells every finding, new or earlier, and every changed file that
   could not be read, by name or, beyond the rows of a list, by number. *)
PageIsComplete ==
  Has("page") =>
    /\ P!EveryFindingIsTold(input.review) /\ P!BodyFits(input.review)
    /\ P!CommentsAreOnTheDiff(input.review) /\ P!NothingOpenIsSilent(input.review)
    /\ P!UnreadIsTold(input.review) /\ P!BadgesAreTrue(input.review)
    /\ \A c \in input.changes :
         c.path \in A!FetchPullDiff(input.changes, FALSE).diff \/ c.path \in input.review.limitations

ContextIsSound == Has("context") => R!ContextIsSound(input.change, input.files)

(* What the past teaches: the bar of a category, the trend of a pipeline, the
   numbers of a workspace. *)
LearnedIsHonest ==
  /\ Has("decisions") => \A others \in Others :
       L!BarIsHonest(others \o input, "a") /\ L!OthersTeachNothing(others \o input, "a")
  /\ Has("runs") => C!WarningIsDeserved(input, 16)
  /\ Has("reviews") =>
       /\ C!CountsAgree(input, Now, C!Days(None)) /\ C!HoursAreEarned(input, Now, C!Days(1))
       /\ \A days \in {0, 9} : C!RatesAreHonest(input, Now, C!Days(days))
  /\ Has("orgs") => C!SeatsAreCountedOnce(input, Now)
=============================================================================
