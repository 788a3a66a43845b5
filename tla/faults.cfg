\* A push, a command, and every fault at once.
SPECIFICATION Spec
CONSTANTS
  Webhooks = {w1}
  StaleAfter = 1
  MaxHead = 1
  Commands = {c1}
  MaxAttempts = 1
  MaxHeal = 1
  MaxBeats = 2
  MaxLost = 2
  MaxCrashes = 1
  MaxRestarts = 1
INVARIANTS TypeOK LiveHolderIsHeard RowIsClosed
PROPERTIES PostingNotTaken SlotIsALease
