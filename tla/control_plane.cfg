\* The control plane's parts, one after the other.
SPECIFICATION MCSpec
CONSTANTS
  Orgs = {"a"}
  PRs = {p1, p2, p3}
  Jobs = {j1, j2}
  Day = 0
  FreeDay = 0
  PaidDay = 1
  FreePr = 1
  PaidPr = 2
  Limits = {2}
  MaxLedgers = 2
  MaxAttempts = 1
  MaxTime = 1
  MaxChanges = 1
  MaxReviews = 3
  Teams = {"t1", "t2"}
  Findings = {"f1", "f2"}
  Window = 1
  MaxDays = 3
  Insts = {"i1"}
  Projects = {"r1"}
  Accounts = {"acme", "bob"}
  AccountOf <- OneAccount
  Loads = {"l1", "l2"}
  MemberOf <- TwoMembers
  Sees <- SeesAll
  NotInstalled = NotInstalled
  NoRow = NoRow
  MaxClock = 2
  MaxEvents = 2
  Visits = {"q1", "q2"}
  States = {1, 2}
  SignIns = {1}
  StateTtl = 0
  MaxGens = 3
  MaxHours = 1
  ModelKeys = {"k", "l"}
  Fallback = own
  NoKey = NoKey
  LlmTtl = 2
  MaxAsked = 2
  MaxTravel = 1
  MaxTicks = 4
  MaxKeys = 2
  Spaces = {"a"}
  Gates = {"m1", "m2"}
  SpaceOf <- OneSpace
  NoSpace = "none"
  ReviewTtl = 1
  MaxConfigs = 1
  Wait = 1
  Attempts = 1
  MaxMinutes = 2
  MaxSwitches = 1
  Projected = {"x", "y"}
  Refreshes = {"s1", "s2"}
  Whole = FALSE
  FetchedRuns = 1
  Cap = 2
  MaxRuns = 2
  MaxRefreshes = 3
  NoCopy = NoCopy
  Places = {"a", "b"}
  Calls = {"g1", "g2"}
  Pasted = {"t"}
  NoSecret = NoSecret
  Lifetime = 3
  Margin = 1
  Assumed = 1
  PastedTtl = 1
  MaxTokens = 1
  Patience = 1
  MaxSeconds = 3
  MaxPastes = 1
  MaxFaults = 1
INVARIANTS LimitsHold BarsFollowDecisions CopiesAreRecent
PROPERTIES OldestLedgerGoes RowsConverge CredentialIsKept
CHECK_DEADLOCK FALSE
SYMMETRY Workers
