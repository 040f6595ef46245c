SPECIFICATION FairSpec
CONSTANTS
  N = 3
  MaxBuffered = 2
  Low = 1
  Window = 1
  QueueCap = 1
  Candidates = 1
  Matches = {TRUE, FALSE}
  Faults = {"giveup", "close", "crash", "signal", "network"}
  MaxFaults = 2
INVARIANTS SuccessIsDelivery NothingUnverified NoSpuriousFailure
PROPERTIES SessionEnds TransferCompletes
