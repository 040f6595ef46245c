SPECIFICATION Spec
CONSTANTS
  N = 3
  MaxBuffered = 2
  Low = 1
  Window = 1
  QueueCap = 1
  Candidates = 1
  Matches = {TRUE}
  Faults = {"signal"}
  MaxFaults = 1
INVARIANTS AckIsDelivered
