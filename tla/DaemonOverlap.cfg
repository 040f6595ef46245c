SPECIFICATION DaemonSpec
CONSTANTS
  Proc = {d1, d2}
  Client = {c1}
  Token = {t1, t2, t3, t4}
  NoToken = NoToken
  NoSock = NoSock
  Stale = Stale
  Overlap = TRUE
  MaxCrashes = 0
  MaxCloses = 1
INVARIANTS SingleInstance
SYMMETRY Symmetry
