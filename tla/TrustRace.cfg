CONSTANTS
  p1 = p1  p2 = p2  t1 = t1  t2 = t2  a1 = a1  a2 = a2  s1 = s1  s2 = s2
  Process = {p1, p2}
  Token = {t1, t2}
  FirstToken = t1
  AccountOf <- MCAccountOf
  Share = {s1, s2}
  Owner <- MCOwner
  OldKeys = {{}}
  None = None
  MaxCalls = 3
  MaxFaults = 0
SYMMETRY Symmetry
SPECIFICATION Spec
CHECK_DEADLOCK FALSE
INVARIANT AccountIsTheLogins
