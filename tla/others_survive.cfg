\* Two refreshes of two repositories, one failed load.
SPECIFICATION Spec
CONSTANTS
  Repos = {a, b}
  Jobs = {j, k}
  Whole = TRUE
  Window = 2
  Cap = 2
  MaxHead = 2
  MaxFaults = 1
  MaxRefreshes = 3
  NoCopy = NoCopy
INVARIANT OthersSurvive
CHECK_DEADLOCK FALSE
