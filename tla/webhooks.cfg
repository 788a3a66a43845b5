\* Three webhooks, retried reviews, and a control plane that answers.
SPECIFICATION Spec
CONSTANTS
  Webhooks = {w1, w2, w3}
  StaleAfter = 1
  MaxHead = 3
  Commands = {}
  MaxAttempts = 2
  MaxHeal = 0
  MaxBeats = 2
  MaxLost = 0
  MaxCrashes = 0
  MaxRestarts = 0
INVARIANTS NoReviewLost
PROPERTIES NoResurrection
SYMMETRY WebhookSymmetry
