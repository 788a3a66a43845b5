\* Two pushes, nothing fails: is the newest head reviewed?
SPECIFICATION Spec
CONSTANTS
  Webhooks = {w1, w2}
  StaleAfter = 1
  MaxHead = 2
  Commands = {}
  MaxAttempts = 1
  MaxHeal = 0
  MaxBeats = 2
  MaxLost = 0
  MaxCrashes = 0
  MaxRestarts = 0
INVARIANTS NewestHeadReviewed
