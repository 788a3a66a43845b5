\* An event and a poison one, delivered twice, with two faults of the edge, a restart and a bridge fault.
SPECIFICATION FairSpec
CONSTANTS
  Keys = {k1, k2}
  Poison = {k2}
  Bridges = {b1}
  Batch = 2
  MaxDeliveries = 2
  MaxEdgeFaults = 2
  MaxRestarts = 1
  MaxBridgeFaults = 1
INVARIANTS OneJobPerEvent AckedIsTaken
PROPERTIES QueuedIsOnStream EveryEntryIsTaken
CHECK_DEADLOCK FALSE
