CONSTANTS
  me = me  laptop = laptop  desk = desk  s1 = s1  s2 = s2  s3 = s3
  Me = me
  Target = laptop
  Runs <- MCRuns
  Carded = {me, laptop}
  Addr = {a1, a2, a3, a4}
  Advert = {x, y}
  Claims <- MCClaims
  Tailnet = {desk}
  Sessions <- MCSessions
  None = None
  MaxChanges = 2
  Second = 2
  Width = 5
  MaxAttempts = 3
  MaxWait = 6
  MaxTotal = 12
  Backoff = 2
  Asks <- MCAsks
SYMMETRY Symmetry
SPECIFICATION Spec
CHECK_DEADLOCK FALSE
INVARIANT LanFileIsAtTarget
