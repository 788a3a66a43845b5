\* A failed enqueue, and the host's retry.
SPECIFICATION Spec
CONSTANTS
  Keys = {k1}
  Poison = {}
  Bridges = {b1}
  Batch = 1
  MaxDeliveries = 2
  MaxEdgeFaults = 1
  MaxRestarts = 0
  MaxBridgeFaults = 0
INVARIANTS NoLostJobs
CHECK_DEADLOCK FALSE
