\* A slot under crashes and lost calls; a store under outages, lost answers, crashes and redeploys.
SPECIFICATION FairStart
CONSTANTS
  Webhooks = {w1}
  Commands = {c1}
  MaxHead = 1
  Tries = 1
  MaxHeal = 0
  MaxBeats = 2
  MaxLost = 2
  MaxCrashes = 1
  MaxRestarts = 0
  StaleAfter = 1
  Demo = TRUE
  MaxWrites = 3
  MaxAttempts = 2
  MaxSleeps = 2
  MaxDrops = 1
  MaxLives = 3
INVARIANTS SkippedMeansStored
PROPERTIES AcceptedIsKept SlotComesFree EventuallySaved
CHECK_DEADLOCK FALSE
