SPECIFICATION FairDaemon
CONSTANTS
  Proc = {d1, d2}
  Client = {c1}
  Token = {t1, t2, t3, t4}
  NoToken = NoToken
  NoSock = NoSock
  Stale = Stale
  Overlap = FALSE
  MaxCrashes = 3
  MaxCloses = 2
INVARIANTS SingleInstance Reachable
PROPERTIES ServedAgain
