CONSTANTS
  a1 = a1  a2 = a2  a3 = a3  b1 = b1  p1 = p1  p2 = p2
  Conn = {a1, a2, a3, b1}
  Peer = {p1, p2}
  IpOf <- MCIpOf
  NoConn = NoConn
  MaxInflight = 2
  MaxSlots = 2
  MaxBurst = 1
  Window = 2
  Modes = {TRUE, FALSE}
  Stuck = {a1}
SPECIFICATION FairSpec
INVARIANTS Balanced Bounded
PROPERTIES NobodyWaitsForever CancelReturns ThrottleWearsOff
