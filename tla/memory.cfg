\* The ledger across pushes, rebases, renames and resolves, two findings of a file, one writer at a time.
SPECIFICATION Spec
CONSTANTS
  Files = {f1}
  Places = {1, 2}
  Named = {2}
  Defects = {d1, d2}
  Reviewers = {r1}
  MaxEntries = 2
  Overlap = FALSE
  Commands = TRUE
  MaxPushes = 2
  MaxPosts = 2
  MaxLost = 1
INVARIANTS OpenOnce UsedOnlyIfPosted
PROPERTIES NeverClearedBySilence RevertedOnlyIfGone NothingForgotten GreenMeansSettled
CHECK_DEADLOCK FALSE
